---- MODULE Spec2Model ----
(***************************************************************************)
(* A model of the nematode reflex system: the reflex policies with their   *)
(* hold time (sim/src/lib.rs, sim-compute/src/lib.rs), the worker-pool     *)
(* simulator, the packet-transport simulator and the .reflex decoder       *)
(* (core/reflex-format/src/lib.rs).                                        *)
(*                                                                         *)
(* Time is the monotonic clock Instant::now(), in microseconds.  Every     *)
(* operation reads the clock; the reads of one operation are taken at the  *)
(* same instant (no operation blocks), and the clock advances between      *)
(* operations.                                                             *)
(***************************************************************************)
EXTENDS Integers, Sequences, FiniteSets, TLC

VARIABLES
    now,        \* Instant::now(), microseconds since the start of the run
    n_adv,      \* how many times the clock has advanced (bounds the run)
    policy,     \* the policy object of the simulator (or the one under test)
    obs,        \* what the caller of decide observed (history of the calls)
    sim,        \* ThreadPoolSim: queue, workers, metrics, counters, windows
    pool_obs,   \* what a worker-pool tick did (history)
    transport,  \* FakeTransport: queue, metrics, counters
    tr_obs,     \* what a transport tick did (history)
    data,       \* the byte buffer handed to Reflex::from_bytes
    result,     \* what Reflex::from_bytes did with it
    reflex,     \* the Reflex in memory that is encoded or evaluated
    run,        \* the call of Reflex::infer in progress, or its outcome
    wc,         \* WindowCollector: window_size, step_size, samples, last_window_at
    wc_obs,     \* what the last call on the collector returned
    norm,       \* Normalizer: min, max
    norm_obs,   \* what the caller of the normalizer passed and got (history)
    tool        \* a run of one of the binaries: its arguments, files, progress

vars ==
    <<now, n_adv, policy, obs, sim, pool_obs, transport, tr_obs, data, result,
      reflex, run, wc, wc_obs, norm, norm_obs, tool>>

\* ------------------------------------------------------------------ bounds

\* The clock advances at most this many times in a run of the policy alone.
MaxAdvances == 4

\* ------------------------------------------------------------ Option<T>

\* Option<T> is a sequence of length at most one.
None == <<>>

Some(v) == <<v>>

IsSome(o) == Len(o) = 1

Unwrap(o) == o[1]

\* ------------------------------------------------------------------ f32
\* An f32 is NaN, an infinity, or a finite value counted in halves
\* (Num(3) is 1.5), which is enough for round() to matter.

NaN == <<"nan", 0>>

PosInf == <<"inf", 1>>

NegInf == <<"inf", 0 - 1>>

Num(h) == <<"num", h>>

\* A finite value counted in tenths (Tenth(3) is 0.3): the features of the
\* reflex crate's test, which are only ever compared.
Tenth(t) == <<"tenths", t>>

\* A finite value that is a quotient n / d of two model values (d > 2, in
\* lowest terms), and f32::MAX and f32::MIN, which are finite and beyond
\* every other finite value of the model.
Rat(n, d) == <<"rat", n, d>>

F32Max == <<"max", 1>>

F32Min == <<"max", 0 - 1>>

IsNaN(x) == x[1] = "nan"

\* A finite value on the scale of tenths.
InTenths(x) == IF x[1] = "tenths" THEN x[2] ELSE 5 * x[2]

\* A finite value other than f32::MAX and f32::MIN as numerator and
\* denominator.
AsRat(x) ==
    IF x[1] = "rat" THEN <<x[2], x[3]>>
    ELSE <<InTenths(x), 10>>

\* Where a value stands among -inf, f32::MIN, the other finite values,
\* f32::MAX and +inf.
Rank(x) ==
    IF x[1] = "inf" THEN 2 * x[2]
    ELSE IF x[1] = "max" THEN x[2]
    ELSE 0

\* x < y on f32; any comparison with NaN is false.
FLt(x, y) ==
    IF IsNaN(x) \/ IsNaN(y) THEN FALSE
    ELSE IF Rank(x) # 0 \/ Rank(y) # 0 THEN Rank(x) < Rank(y)
    ELSE AsRat(x)[1] * AsRat(y)[2] < AsRat(y)[1] * AsRat(x)[2]

\* x <= y on f32; any comparison with NaN is false.
FLe(x, y) == ~IsNaN(x) /\ ~IsNaN(y) /\ ~FLt(y, x)

\* f32::round: to the nearest integer, halves away from zero.
FRound(x) ==
    IF x[1] # "num" THEN x
    ELSE IF x[2] % 2 = 0 THEN x
    ELSE IF x[2] > 0 THEN Num(x[2] + 1)
    ELSE Num(x[2] - 1)

\* f32::max: if one argument is NaN the other is returned.
FMax(x, y) ==
    IF IsNaN(x) THEN y
    ELSE IF IsNaN(y) THEN x
    ELSE IF FLt(x, y) THEN y ELSE x

\* f32::min: if one argument is NaN the other is returned.
FMin(x, y) ==
    IF IsNaN(x) THEN y
    ELSE IF IsNaN(y) THEN x
    ELSE IF FLt(y, x) THEN y ELSE x

\* Where `as u32` saturates.  u32::MAX is 2^32 - 1; TLC's integers end at
\* 2^31 - 1, so the model saturates there: no queue length and no age in
\* the model comes near either value.
U32Max == 2147483647

\* `x as u32`: truncates toward zero, saturates, and sends NaN to 0.
AsU32(x) ==
    IF IsNaN(x) THEN 0
    ELSE IF x[1] = "inf" THEN (IF x[2] > 0 THEN U32Max ELSE 0)
    ELSE IF x[2] < 0 THEN 0
    ELSE IF x[2] \div 2 > U32Max THEN U32Max
    ELSE x[2] \div 2

\* The reflex outputs the model feeds to the policies: NaN, the infinities,
\* -1.5, 0, 0.5, 1, 1.5, 2.5, 64, 64.5, 65 and 1000.
FloatSamples ==
    {NaN, PosInf, NegInf} \cup
    {Num(h) : h \in {0 - 3, 0, 1, 2, 3, 5, 128, 129, 130, 2000}}

\* ---------------------------------------------------------------- clock

\* The clock moves forward by d microseconds between two operations.
ClockAdvance(d, max) ==
    /\ n_adv < max
    /\ now' = now + d
    /\ n_adv' = n_adv + 1

\* --------------------------------------------------------------- policies

HoldMsTransport == 300

HoldMsCompute == 500

BaselineThreshold == 16

BaselineMaxDelayUs == 500

BaselineWorkers == 8

MinWorkers == 1

MaxWorkers == 64

\* sim::BaselinePolicy::new, sim_compute::BaselinePolicy::new
BaselinePolicyNew(schema) ==
    [kind |-> "baseline", schema |-> schema,
     threshold |-> BaselineThreshold, max_delay_us |-> BaselineMaxDelayUs,
     n_workers |-> BaselineWorkers,
     last_decision |-> None, last_decision_time |-> None, hold_time |-> 0]

\* ReflexPolicy::load, once the reflex file has been read and decoded.
ReflexPolicyLoad(schema) ==
    [kind |-> "reflex", schema |-> schema,
     threshold |-> 0, max_delay_us |-> 0, n_workers |-> 0,
     last_decision |-> None, last_decision_time |-> None,
     hold_time |-> IF schema = "transport" THEN HoldMsTransport * 1000
                   ELSE HoldMsCompute * 1000]

\* A policy written against the public trait (sweep's FixedPolicy is one):
\* it may return any decision at any call.
ExternalPolicy(schema) ==
    [kind |-> "external", schema |-> schema,
     threshold |-> 0, max_delay_us |-> 0, n_workers |-> 0,
     last_decision |-> None, last_decision_time |-> None, hold_time |-> 0]

\* BaselinePolicy::decide reading the wrong fields.
BaselineDecideSwapsFields(p) ==
    IF p.schema = "transport"
    THEN [threshold |-> p.max_delay_us, max_delay_us |-> p.threshold]
    ELSE [n_workers |-> p.threshold]

\* BaselinePolicy::decide, both simulators.
BaselineDecide(p) ==
    IF p.schema = "transport"
    THEN [threshold |-> p.threshold, max_delay_us |-> p.max_delay_us]
    ELSE [n_workers |-> p.n_workers]

\* sim::ReflexPolicy::decide, "Decode outputs".
TransportDecode(outputs) ==
    [threshold |-> AsU32(FRound(outputs[1])),
     max_delay_us |-> AsU32(FRound(outputs[2]))]

\* "Decode output" without max(1.0).
ComputeDecodeNoLowerClamp(outputs) ==
    [n_workers |-> AsU32(FMin(FRound(outputs[1]), Num(2 * MaxWorkers)))]

\* sim_compute::ReflexPolicy::decide, "Decode output".
ComputeDecode(outputs) ==
    [n_workers |->
        AsU32(FMin(FMax(FRound(outputs[1]), Num(2 * MinWorkers)),
                   Num(2 * MaxWorkers)))]

\* "Hold time enforcement": a decision is cached and younger than hold_time.
HoldActive(p, t) ==
    /\ IsSome(p.last_decision_time)
    /\ t - Unwrap(p.last_decision_time) < p.hold_time

\* ReflexPolicy::decide holding with <= hold_time instead of <.
ReflexDecideHoldsAtBoundary(p, t, outputs) ==
    IF IsSome(p.last_decision_time)
       /\ t - Unwrap(p.last_decision_time) <= p.hold_time
    THEN [policy |-> p, decision |-> Unwrap(p.last_decision), evaluated |-> FALSE]
    ELSE LET d == IF p.schema = "transport" THEN TransportDecode(outputs)
                  ELSE ComputeDecode(outputs)
         IN  [policy |-> [p EXCEPT !.last_decision = Some(d),
                                   !.last_decision_time = Some(t)],
              decision |-> d, evaluated |-> TRUE]

\* ReflexPolicy::decide that does not update last_decision_time.
ReflexDecideForgetsTime(p, t, outputs) ==
    IF HoldActive(p, t)
    THEN [policy |-> p, decision |-> Unwrap(p.last_decision), evaluated |-> FALSE]
    ELSE LET d == IF p.schema = "transport" THEN TransportDecode(outputs)
                  ELSE ComputeDecode(outputs)
         IN  [policy |-> [p EXCEPT !.last_decision = Some(d)],
              decision |-> d, evaluated |-> TRUE]

\* ReflexPolicy::decide at time t, the reflex evaluating to `outputs`:
\* the policy afterwards, the decision returned, and whether the reflex ran.
ReflexDecide(p, t, outputs) ==
    IF HoldActive(p, t)
    THEN [policy |-> p, decision |-> Unwrap(p.last_decision), evaluated |-> FALSE]
    ELSE LET d == IF p.schema = "transport" THEN TransportDecode(outputs)
                  ELSE ComputeDecode(outputs)
         IN  [policy |-> [p EXCEPT !.last_decision = Some(d),
                                   !.last_decision_time = Some(t)],
              decision |-> d, evaluated |-> TRUE]

\* The reflex outputs a decide call may see: one per output channel.
OutputsOf(schema, samples) ==
    IF schema = "transport" THEN samples \X samples
    ELSE {<<x>> : x \in samples}

\* policy.decide for any of the policies: the set of possible outcomes.
Decide(p, t, samples, externals) ==
    IF p.kind = "baseline"
    THEN {[policy |-> p, decision |-> BaselineDecide(p), evaluated |-> FALSE]}
    ELSE IF p.kind = "reflex"
    THEN {ReflexDecide(p, t, o) : o \in OutputsOf(p.schema, samples)}
    ELSE {[policy |-> p, decision |-> d, evaluated |-> FALSE] : d \in externals}

\* ------------------------------------------- the reflex policy on its own

\* Clock steps between two decide calls: one microsecond, the policy's hold
\* time, and one microsecond less than it.
PolicyDeltas(p) == {1, p.hold_time - 1, p.hold_time}

\* Reflex outputs fed to the transport policy, two per call: NaN, 0.5, 2.5, 1000.
TransportSamples == {NaN, Num(1), Num(5), Num(2000)}

SamplesOf(schema) ==
    IF schema = "transport" THEN TransportSamples ELSE FloatSamples

\* Nothing has called decide yet.
ObsInit ==
    [flip |-> 0, ret |-> None, evaluated |-> FALSE, at |-> None,
     change_time |-> None, change_gap |-> None]

\* What the caller sees of one decide call at time t that returned d.
Observe(o, t, d, evaluated) ==
    LET changed == IsSome(o.ret) /\ Unwrap(o.ret) # d
    IN  [flip |-> 1 - o.flip, ret |-> Some(d), evaluated |-> evaluated,
         at |-> Some(t),
         change_time |-> IF changed THEN Some(t) ELSE o.change_time,
         change_gap |-> IF changed /\ IsSome(o.change_time)
                        THEN Some(t - Unwrap(o.change_time))
                        ELSE o.change_gap]

InitPolicy ==
    /\ now = 0
    /\ n_adv = 0
    /\ policy \in {ReflexPolicyLoad("transport"), ReflexPolicyLoad("compute")}
    /\ obs = ObsInit
    /\ sim = None
    /\ pool_obs = None
    /\ transport = None
    /\ tr_obs = None
    /\ data = None
    /\ result = None
    /\ reflex = None
    /\ run = None
    /\ wc = None
    /\ wc_obs = None
    /\ norm = None
    /\ norm_obs = None
    /\ tool = None

\* One call of ReflexPolicy::decide.
PolicyDecide ==
    /\ \E r \in Decide(policy, now, SamplesOf(policy.schema), {}) :
          /\ policy' = r.policy
          /\ obs' = Observe(obs, now, r.decision, r.evaluated)
    /\ UNCHANGED <<now, n_adv, sim, pool_obs, transport, tr_obs, data, result,
                 reflex, run, wc, wc_obs,
                 norm, norm_obs, tool>>

PolicyClock ==
    /\ \E d \in PolicyDeltas(policy) : ClockAdvance(d, MaxAdvances)
    /\ UNCHANGED <<policy, obs, sim, pool_obs, transport, tr_obs, data, result,
                 reflex, run, wc, wc_obs,
                 norm, norm_obs, tool>>

NextPolicy ==
    \/ PolicyDecide
    \/ PolicyClock

SpecPolicy == InitPolicy /\ [][NextPolicy]_vars

\* C1: a decide call made while a decision is cached and younger than the
\* hold time (300 ms transport, 500 ms compute) returns the cached decision,
\* does not run the reflex and leaves the cache and its time as they were;
\* any other call runs the reflex and stores its decision with the time of
\* the call.
C1_HoldTimeReturnsCache ==
    [][obs'.flip # obs.flip =>
         LET hold == IF policy.schema = "transport" THEN HoldMsTransport * 1000
                     ELSE HoldMsCompute * 1000
             cached == /\ policy.last_decision # None
                       /\ policy.last_decision_time # None
                       /\ now - policy.last_decision_time[1] < hold
         IN  IF cached
             THEN /\ obs'.ret = policy.last_decision
                  /\ ~obs'.evaluated
                  /\ policy'.last_decision = policy.last_decision
                  /\ policy'.last_decision_time = policy.last_decision_time
             ELSE /\ obs'.evaluated
                  /\ policy'.last_decision = obs'.ret
                  /\ policy'.last_decision_time = <<now>>]_vars

\* A call returned the cache during the hold, some time after it was stored.
C1_Witness ==
    /\ obs.ret # None
    /\ ~obs.evaluated
    /\ obs.at # policy.last_decision_time
    /\ obs.ret = policy.last_decision

\* C2: any two decide calls whose returned decision differs from the one
\* returned by the call before them are at least hold_time apart.
C2_ChangeAtMostOncePerHold ==
    obs.change_gap # None =>
        obs.change_gap[1] >= (IF policy.schema = "transport"
                              THEN HoldMsTransport * 1000
                              ELSE HoldMsCompute * 1000)

\* The returned decision has changed twice.
C2_Witness ==
    /\ obs.change_gap # None
    /\ obs.change_time = obs.at

\* C3: every decision the compute reflex policy returns, on re-evaluation or
\* from the cache, has 1 <= n_workers <= 64.
C3_WorkersInRange ==
    (policy.schema = "compute" /\ obs.ret # None) =>
        /\ obs.ret[1].n_workers >= 1
        /\ obs.ret[1].n_workers <= 64

\* The compute policy returned the lower limit from the cache.
C3_Witness ==
    /\ policy.schema = "compute"
    /\ obs.ret # None
    /\ ~obs.evaluated
    /\ obs.ret[1].n_workers = 1

\* --------------------------------------------------- worker-pool simulator

\* At most this many tasks are enqueued in a run.
MaxTasks == 2

\* At most this many ticks happen in a run.
MaxTicks == 2

\* The largest pool size an external policy asks for.
MaxTarget == 2

\* The clock advances at most this many times in a worker-pool run.
PoolAdvances == 2

\* Duration::from_secs(1), in microseconds: the throughput interval and the
\* retention of the arrival and completion windows.
OneSecondUs == 1000000

\* work_us of the tasks the driver enqueues.
WorkSet == {0, 2}

\* Reflex outputs fed to the compute policy inside the simulator: NaN, 1.5, 2.5.
PoolSamples == {NaN, Num(3), Num(5)}

\* Clock steps of the worker-pool runs: a microsecond, and the second after
\* which the hold time is over and the windows are emptied.
PoolDeltas == {1, OneSecondUs}

\* Worker::new
WorkerNew(id) == [id |-> id, current_task |-> None, task_finish_time |-> None]

\* Worker::is_idle
WorkerIsIdle(w) == w.current_task = None

\* Worker::assign
WorkerAssign(w, task, t) ==
    [w EXCEPT !.current_task = Some([task EXCEPT !.start_time = Some(t)]),
              !.task_finish_time = Some(t + task.work_us)]

\* check_complete returning the task without taking it from the worker.
WorkerCheckCompleteKeepsTask(w, t) ==
    IF IsSome(w.task_finish_time) /\ t >= Unwrap(w.task_finish_time)
    THEN [worker |-> [w EXCEPT !.task_finish_time = None],
          task |-> w.current_task]
    ELSE [worker |-> w, task |-> None]

\* Worker::check_complete: the worker afterwards and the task it gave up.
WorkerCheckComplete(w, t) ==
    IF IsSome(w.task_finish_time) /\ t >= Unwrap(w.task_finish_time)
    THEN [worker |-> [w EXCEPT !.current_task = None, !.task_finish_time = None],
          task |-> w.current_task]
    ELSE [worker |-> w, task |-> None]

\* Metrics::new
MetricsNew ==
    [task_times_us |-> <<>>, throughput_samples |-> <<>>, decision_changes |-> 0]

\* ThreadPoolSim::new
ThreadPoolSimNew(initial_workers, t) ==
    [queue |-> <<>>,
     workers |-> [i \in 1..initial_workers |-> WorkerNew(i - 1)],
     metrics |-> MetricsNew,
     next_task_id |-> 0,
     last_decision |-> None,
     completed_tasks |-> 0,
     last_throughput_measurement |-> t,
     arrival_count_window |-> <<>>,
     completion_count_window |-> <<>>,
     task_times_window |-> <<>>]

\* ThreadPoolSim::enqueue
SimEnqueue(s, work_us, t) ==
    [s EXCEPT !.queue = Append(@, [id |-> s.next_task_id, work_us |-> work_us,
                                   arrival_time |-> t, start_time |-> None]),
              !.next_task_id = @ + 1,
              !.arrival_count_window = Append(@, <<t, 1>>)]

\* ThreadPoolSim::tick, "Check for completed tasks": workers i.. in list order.
RECURSIVE CompleteLoop(_, _, _)
CompleteLoop(s, i, t) ==
    IF i > Len(s.workers) THEN s
    ELSE LET r == WorkerCheckComplete(s.workers[i], t)
         IN  IF IsSome(r.task)
             THEN LET total_time == t - Unwrap(r.task).arrival_time
                  IN  CompleteLoop(
                        [s EXCEPT !.workers[i] = r.worker,
                                  !.metrics.task_times_us = Append(@, total_time),
                                  !.task_times_window = Append(@, total_time),
                                  !.completed_tasks = @ + 1,
                                  !.completion_count_window = Append(@, <<t, 1>>)],
                        i + 1, t)
             ELSE CompleteLoop([s EXCEPT !.workers[i] = r.worker], i + 1, t)

\* ThreadPoolSim::tick, "Assign tasks to idle workers": workers i.. in list order.
RECURSIVE AssignLoop(_, _, _)
AssignLoop(s, i, t) ==
    IF i > Len(s.workers) THEN s
    ELSE IF WorkerIsIdle(s.workers[i]) /\ s.queue # <<>>
    THEN AssignLoop([s EXCEPT !.workers[i] = WorkerAssign(@, Head(s.queue), t),
                              !.queue = Tail(@)],
                    i + 1, t)
    ELSE AssignLoop(s, i + 1, t)

\* The closure handed to Vec::retain in resize_workers, over workers i..:
\* the workers kept.
RECURSIVE RetainLoop(_, _, _)
RetainLoop(ws, i, to_remove) ==
    IF i > Len(ws) THEN <<>>
    ELSE IF to_remove > 0 /\ WorkerIsIdle(ws[i])
    THEN RetainLoop(ws, i + 1, to_remove - 1)
    ELSE <<ws[i]>> \o RetainLoop(ws, i + 1, to_remove)

\* The retain closure without the is_idle test.
RECURSIVE RetainLoopAnyWorker(_, _, _)
RetainLoopAnyWorker(ws, i, to_remove) ==
    IF i > Len(ws) THEN <<>>
    ELSE IF to_remove > 0
    THEN RetainLoopAnyWorker(ws, i + 1, to_remove - 1)
    ELSE <<ws[i]>> \o RetainLoopAnyWorker(ws, i + 1, to_remove)

\* resize_workers without the branch that removes workers.
ResizeWorkersNeverShrinks(ws, target) ==
    LET current == Len(ws)
    IN  IF target > current
        THEN ws \o [k \in 1..(target - current) |-> WorkerNew(current + k - 1)]
        ELSE ws

\* resize_workers removing workers whether idle or busy.
ResizeWorkersPreempting(ws, target) ==
    LET current == Len(ws)
    IN  IF target > current
        THEN ws \o [k \in 1..(target - current) |-> WorkerNew(current + k - 1)]
        ELSE IF target < current
        THEN RetainLoopAnyWorker(ws, 1, current - target)
        ELSE ws

\* resize_workers removing every idle worker when the target is below the
\* current size.
ResizeWorkersRemovesAllIdle(ws, target) ==
    LET current == Len(ws)
    IN  IF target > current
        THEN ws \o [k \in 1..(target - current) |-> WorkerNew(current + k - 1)]
        ELSE IF target < current
        THEN RetainLoop(ws, 1, current)
        ELSE ws

\* resize_workers without the "Add workers" branch.
ResizeWorkersNeverGrows(ws, target) ==
    LET current == Len(ws)
    IN  IF target < current
        THEN RetainLoop(ws, 1, current - target)
        ELSE ws

\* ThreadPoolSim::resize_workers
ResizeWorkers(ws, target) ==
    LET current == Len(ws)
    IN  IF target > current
        THEN ws \o [k \in 1..(target - current) |-> WorkerNew(current + k - 1)]
        ELSE IF target < current
        THEN RetainLoop(ws, 1, current - target)
        ELSE ws

\* The number of busy workers.
BusyWorkers(ws) == Cardinality({i \in 1..Len(ws) : ~WorkerIsIdle(ws[i])})

\* ThreadPoolSim::collect_telemetry: the queue length, the window counts and the
\* worker counts (worker_util is the fraction busy / total, kept as a pair).
CollectTelemetry(s) ==
    LET busy_workers == BusyWorkers(s.workers)
    IN  [runq_len |-> Len(s.queue),
         arrival_rate |-> Len(s.arrival_count_window),
         completion_rate |-> Len(s.completion_count_window),
         worker_util |-> IF s.workers = <<>> THEN <<0, 1>>
                         ELSE <<busy_workers, Len(s.workers)>>,
         ctx_switches_per_sec |-> Len(s.workers) * 10,
         idle_worker_count |-> Len(s.workers) - busy_workers]

\* ThreadPoolSim::tick, "Track decision changes".
TrackDecision(s, decision) ==
    [s EXCEPT !.metrics.decision_changes =
                  IF IsSome(s.last_decision)
                     /\ Unwrap(s.last_decision).n_workers # decision.n_workers
                  THEN @ + 1 ELSE @,
              !.last_decision = Some(decision)]

\* ThreadPoolSim::tick, "Measure throughput every second": a sample is the
\* pair (completed tasks, elapsed microseconds).
MeasureThroughput(s, t) ==
    IF t - s.last_throughput_measurement >= OneSecondUs
    THEN [s EXCEPT !.metrics.throughput_samples =
                       Append(@, <<s.completed_tasks,
                                   t - s.last_throughput_measurement>>),
                   !.completed_tasks = 0,
                   !.last_throughput_measurement = t]
    ELSE s

\* "Cleanup old window data" emptying the task-time window as well.
CleanupWindowsEvictsTaskTimes(s, t) ==
    LET cutoff == t - OneSecondUs
        Keep(e) == e[1] >= cutoff
    IN  [s EXCEPT !.arrival_count_window = SelectSeq(@, Keep),
                  !.completion_count_window = SelectSeq(@, Keep),
                  !.task_times_window =
                      IF s.completion_count_window = SelectSeq(s.completion_count_window, Keep)
                      THEN @ ELSE <<>>]

\* ThreadPoolSim::tick, "Cleanup old window data".
CleanupWindows(s, t) ==
    LET cutoff == t - OneSecondUs
        Keep(e) == e[1] >= cutoff
    IN  [s EXCEPT !.arrival_count_window = SelectSeq(@, Keep),
                  !.completion_count_window = SelectSeq(@, Keep)]

\* The assignment loop taking the task at the back of the queue.
RECURSIVE AssignLoopFromBack(_, _, _)
AssignLoopFromBack(s, i, t) ==
    IF i > Len(s.workers) THEN s
    ELSE IF WorkerIsIdle(s.workers[i]) /\ s.queue # <<>>
    THEN AssignLoopFromBack(
             [s EXCEPT !.workers[i] = WorkerAssign(@, s.queue[Len(s.queue)], t),
                       !.queue = SubSeq(@, 1, Len(@) - 1)],
             i + 1, t)
    ELSE AssignLoopFromBack(s, i + 1, t)

\* tick assigning the newest task first.
TickAssignsNewestFirst(s, t, decision) ==
    LET assigned == AssignLoopFromBack(CompleteLoop(s, 1, t), 1, t)
        tracked == TrackDecision(assigned, decision)
        resized == [tracked EXCEPT !.workers = ResizeWorkers(@, decision.n_workers)]
    IN  CleanupWindows(MeasureThroughput(resized, t), t)

\* tick with the assignment ahead of the completions.
TickAssignsBeforeCompleting(s, t, decision) ==
    LET completed == CompleteLoop(AssignLoop(s, 1, t), 1, t)
        tracked == TrackDecision(completed, decision)
        resized == [tracked EXCEPT !.workers = ResizeWorkers(@, decision.n_workers)]
    IN  CleanupWindows(MeasureThroughput(resized, t), t)

\* ThreadPoolSim::tick after policy.decide has returned `decision` on the
\* telemetry of TickTelemetry.
SimTick(s, t, decision) ==
    LET assigned == AssignLoop(CompleteLoop(s, 1, t), 1, t)
        tracked == TrackDecision(assigned, decision)
        resized == [tracked EXCEPT !.workers = ResizeWorkers(@, decision.n_workers)]
    IN  CleanupWindows(MeasureThroughput(resized, t), t)

\* tick collecting telemetry ahead of the assignment.
TickTelemetryBeforeAssign(s, t) ==
    CollectTelemetry(CompleteLoop(s, 1, t))

\* ThreadPoolSim::tick up to "Collect telemetry": what policy.decide is handed.
TickTelemetry(s, t) ==
    CollectTelemetry(AssignLoop(CompleteLoop(s, 1, t), 1, t))

\* The pool size the runners start with (baseline.rs, reflex.rs).
RunnerWorkers == 8

\* The pool sizes a simulator is constructed with: the runners' 8, or, for a
\* policy of the caller's own, one worker (sweep's first run).
InitialWorkers(p) ==
    IF p.kind = "external" THEN {1} ELSE {RunnerWorkers}

\* The decisions an external policy returns.
PoolExternals == {[n_workers |-> n] : n \in 0..MaxTarget}

\* The policies a worker-pool simulator is run with.
PoolPolicies ==
    {BaselinePolicyNew("compute"), ReflexPolicyLoad("compute"),
     ExternalPolicy("compute")}

\* No tick has happened yet. The history keeps the time of every enqueue and
\* of every completion of the run.
PoolObsInit ==
    [n_ticks |-> 0, telem |-> None, decision |-> None,
     enqueued |-> <<>>, completed |-> <<>>]

InitPool ==
    /\ now = 0
    /\ n_adv = 0
    /\ policy \in PoolPolicies
    /\ obs = ObsInit
    /\ \E n \in InitialWorkers(policy) : sim = ThreadPoolSimNew(n, 0)
    /\ pool_obs = PoolObsInit
    /\ transport = None
    /\ tr_obs = None
    /\ data = None
    /\ result = None
    /\ reflex = None
    /\ run = None
    /\ wc = None
    /\ wc_obs = None
    /\ norm = None
    /\ norm_obs = None
    /\ tool = None

\* The driver calls sim.enqueue(work_us).
PoolEnqueue ==
    /\ sim # None
    /\ sim.next_task_id < MaxTasks
    /\ \E w \in WorkSet : sim' = SimEnqueue(sim, w, now)
    /\ pool_obs' = [pool_obs EXCEPT !.enqueued = Append(@, now)]
    /\ UNCHANGED <<now, n_adv, policy, obs, transport, tr_obs, data, result,
                 reflex, run, wc, wc_obs,
                 norm, norm_obs, tool>>

\* The driver calls sim.tick(); an external policy answers from `externals`.
TickWith(externals, max_ticks) ==
    /\ sim # None
    /\ pool_obs.n_ticks < max_ticks
    /\ \E r \in Decide(policy, now, PoolSamples, externals) :
          /\ policy' = r.policy
          /\ sim' = SimTick(sim, now, r.decision)
          /\ pool_obs' = [n_ticks |-> pool_obs.n_ticks + 1,
                          telem |-> Some(TickTelemetry(sim, now)),
                          decision |-> Some(r.decision),
                          enqueued |-> pool_obs.enqueued,
                          completed |-> pool_obs.completed \o
                              [k \in 1..(Len(sim'.metrics.task_times_us)
                                         - Len(sim.metrics.task_times_us))
                                  |-> now]]
    /\ UNCHANGED <<now, n_adv, obs, transport, tr_obs, data, result,
                 reflex, run, wc, wc_obs,
                 norm, norm_obs, tool>>

PoolClock ==
    /\ \E d \in PoolDeltas : ClockAdvance(d, PoolAdvances)
    /\ UNCHANGED <<policy, obs, sim, pool_obs, transport, tr_obs, data, result,
                 reflex, run, wc, wc_obs,
                 norm, norm_obs, tool>>

PoolTick == TickWith(PoolExternals, MaxTicks)

NextPool ==
    \/ PoolEnqueue
    \/ PoolTick
    \/ PoolClock

SpecPool == InitPool /\ [][NextPool]_vars

\* ------------------------------------------- the resize-down scenario
\* A pool of ScenarioWorkers workers under a policy that always asks for
\* ScenarioTarget; the driver enqueues one task per worker, then ticks while
\* time passes.

ScenarioWorkers == 8

ScenarioTarget == 2

\* At most this many ticks, and this many clock steps, in the scenario.
ScenarioTicks == 4

ScenarioAdvances == 3

\* work_us of the scenario's tasks.
ScenarioWork == {1, 2}

InitResizeDown ==
    /\ now = 0
    /\ n_adv = 0
    /\ policy = ExternalPolicy("compute")
    /\ obs = ObsInit
    /\ sim = ThreadPoolSimNew(ScenarioWorkers, 0)
    /\ pool_obs = PoolObsInit
    /\ transport = None
    /\ tr_obs = None
    /\ data = None
    /\ result = None
    /\ reflex = None
    /\ run = None
    /\ wc = None
    /\ wc_obs = None
    /\ norm = None
    /\ norm_obs = None
    /\ tool = None

\* The driver fills the queue before the first tick.
ScenarioEnqueue ==
    /\ sim.next_task_id < ScenarioWorkers
    /\ \E w \in ScenarioWork : sim' = SimEnqueue(sim, w, now)
    /\ pool_obs' = [pool_obs EXCEPT !.enqueued = Append(@, now)]
    /\ UNCHANGED <<now, n_adv, policy, obs, transport, tr_obs, data, result,
                 reflex, run, wc, wc_obs,
                 norm, norm_obs, tool>>

ScenarioTick ==
    /\ sim.next_task_id = ScenarioWorkers
    /\ TickWith({[n_workers |-> ScenarioTarget]}, ScenarioTicks)

ScenarioClock ==
    /\ sim.next_task_id = ScenarioWorkers
    /\ ClockAdvance(1, ScenarioAdvances)
    /\ UNCHANGED <<policy, obs, sim, pool_obs, transport, tr_obs, data, result,
                 reflex, run, wc, wc_obs,
                 norm, norm_obs, tool>>

NextResizeDown ==
    \/ ScenarioEnqueue
    \/ ScenarioTick
    \/ ScenarioClock

SpecResizeDown == InitResizeDown /\ [][NextResizeDown]_vars

\* ------------------------------------------- packet-transport simulator

\* At most this many packets are enqueued in a run.
MaxPackets == 3

\* At most this many transport ticks, and clock steps, in a run.
TrTicks == 2

TrAdvances == 2

\* Reflex outputs fed to the transport policy inside the simulator, two per
\* evaluation: NaN, 1 and 2.5 (thresholds and delays of 0, 1 and 3).
TrSimSamples == {NaN, Num(2), Num(5)}

\* size_bytes of the packets the driver enqueues.
SizeSet == {1024}

\* Clock steps of the transport runs: a microsecond, the baseline's maximum
\* delay, and the reflex policy's hold time.
TrDeltas == {1, BaselineMaxDelayUs, HoldMsTransport * 1000}

\* sim::Metrics::new
TrMetricsNew ==
    [latencies_us |-> <<>>, throughput_samples |-> <<>>, decision_changes |-> 0]

\* FakeTransport::new
FakeTransportNew(t) ==
    [queue |-> <<>>,
     metrics |-> TrMetricsNew,
     next_packet_id |-> 0,
     last_decision |-> None,
     sent_packets |-> 0,
     last_throughput_measurement |-> t]

\* FakeTransport::enqueue
TrEnqueueOp(s, size_bytes, t) ==
    [s EXCEPT !.queue = Append(@, [id |-> s.next_packet_id,
                                   size_bytes |-> size_bytes,
                                   arrival_time |-> t]),
              !.next_packet_id = @ + 1]

\* FakeTransport::oldest_packet_age_us
OldestPacketAgeUs(s, t) ==
    IF s.queue = <<>> THEN 0 ELSE t - Head(s.queue).arrival_time

\* flush leaving the newest packet in the queue after recording it.
FlushLeavesNewest(s, t) ==
    [s EXCEPT !.queue = IF @ = <<>> THEN @ ELSE <<@[Len(@)]>>,
              !.metrics.latencies_us =
                  @ \o [k \in 1..Len(s.queue) |-> t - s.queue[k].arrival_time],
              !.sent_packets = @ + Len(s.queue)]

\* FakeTransport::flush
Flush(s, t) ==
    [s EXCEPT !.queue = <<>>,
              !.metrics.latencies_us =
                  @ \o [k \in 1..Len(s.queue) |-> t - s.queue[k].arrival_time],
              !.sent_packets = @ + Len(s.queue)]

\* "Track decision changes" comparing the thresholds only.
TrTrackDecisionThresholdOnly(s, decision) ==
    [s EXCEPT !.metrics.decision_changes =
                  IF IsSome(s.last_decision)
                     /\ Unwrap(s.last_decision).threshold # decision.threshold
                  THEN @ + 1 ELSE @,
              !.last_decision = Some(decision)]

\* FakeTransport::tick, "Track decision changes".
TrTrackDecision(s, decision) ==
    [s EXCEPT !.metrics.decision_changes =
                  IF IsSome(s.last_decision)
                     /\ (\/ Unwrap(s.last_decision).threshold # decision.threshold
                         \/ Unwrap(s.last_decision).max_delay_us # decision.max_delay_us)
                  THEN @ + 1 ELSE @,
              !.last_decision = Some(decision)]

\* FakeTransport::tick, "Measure throughput every second".
TrMeasureThroughput(s, t) ==
    IF t - s.last_throughput_measurement >= OneSecondUs
    THEN [s EXCEPT !.metrics.throughput_samples =
                       Append(@, <<s.sent_packets,
                                   t - s.last_throughput_measurement>>),
                   !.sent_packets = 0,
                   !.last_throughput_measurement = t]
    ELSE s

\* FakeTransport::tick, "Flush if conditions met".
ShouldFlush(s, t, decision) ==
    \/ Len(s.queue) >= decision.threshold
    \/ OldestPacketAgeUs(s, t) >= decision.max_delay_us

\* tick flushing on the previous decision instead of the new one.
TransportTickOldDecision(s, t, decision) ==
    LET tracked == TrTrackDecision(s, decision)
        used == IF IsSome(s.last_decision) THEN Unwrap(s.last_decision)
                ELSE decision
        flushed == IF ShouldFlush(tracked, t, used) THEN Flush(tracked, t)
                   ELSE tracked
    IN  TrMeasureThroughput(flushed, t)

\* tick flushing only when both conditions hold.
TransportTickNeedsBoth(s, t, decision) ==
    LET tracked == TrTrackDecision(s, decision)
        flushed == IF /\ Len(s.queue) >= decision.threshold
                      /\ OldestPacketAgeUs(s, t) >= decision.max_delay_us
                   THEN Flush(tracked, t)
                   ELSE tracked
    IN  TrMeasureThroughput(flushed, t)

\* FakeTransport::collect_telemetry: the queue depth and the features the
\* simulator does not track ("TODO: track"). The latency percentiles and the
\* packet-size statistics of the sample are left out. `queue.len() as u32`
\* is the length itself for the queues of a run, far shorter than 2^32.
TrCollectTelemetry(s, t) ==
    [queue_depth |-> Len(s.queue),
     enqueue_rate |-> Num(0),
     dequeue_rate |-> Num(0),
     bytes_in_per_sec |-> Num(0),
     bytes_out_per_sec |-> Num(0),
     rtt_ewma_us |-> Num(100)]

\* FakeTransport::tick after policy.decide has returned `decision`.
TransportTick(s, t, decision) ==
    LET tracked == TrTrackDecision(s, decision)
        flushed == IF ShouldFlush(tracked, t, decision) THEN Flush(tracked, t)
                   ELSE tracked
    IN  TrMeasureThroughput(flushed, t)

\* The policies a transport simulator is run with (baseline.rs, reflex.rs).
TrPolicies == {BaselinePolicyNew("transport"), ReflexPolicyLoad("transport")}

\* No tick has happened yet.
TrObsInit ==
    [n_ticks |-> 0, decision |-> None, telem |-> None, queue_len |-> 0,
     n_enqueued |-> 0]

InitTransport ==
    /\ now = 0
    /\ n_adv = 0
    /\ policy \in TrPolicies
    /\ obs = ObsInit
    /\ sim = None
    /\ pool_obs = None
    /\ transport = FakeTransportNew(0)
    /\ tr_obs = TrObsInit
    /\ data = None
    /\ result = None
    /\ reflex = None
    /\ run = None
    /\ wc = None
    /\ wc_obs = None
    /\ norm = None
    /\ norm_obs = None
    /\ tool = None

\* The driver calls transport.enqueue(size).
TrEnqueue ==
    /\ transport # None
    /\ transport.next_packet_id < MaxPackets
    /\ \E b \in SizeSet : transport' = TrEnqueueOp(transport, b, now)
    /\ tr_obs' = [tr_obs EXCEPT !.n_enqueued = @ + 1]
    /\ UNCHANGED <<now, n_adv, policy, obs, sim, pool_obs, data, result,
                 reflex, run, wc, wc_obs,
                 norm, norm_obs, tool>>

\* The driver calls transport.tick().
TrTick ==
    /\ transport # None
    /\ tr_obs.n_ticks < TrTicks
    /\ \E r \in Decide(policy, now, TrSimSamples, {}) :
          /\ policy' = r.policy
          /\ transport' = TransportTick(transport, now, r.decision)
          /\ tr_obs' = [n_ticks |-> tr_obs.n_ticks + 1,
                        decision |-> Some(r.decision),
                        telem |-> Some(TrCollectTelemetry(transport, now)),
                        queue_len |-> Len(transport.queue),
                        n_enqueued |-> tr_obs.n_enqueued]
    /\ UNCHANGED <<now, n_adv, obs, sim, pool_obs, data, result,
                 reflex, run, wc, wc_obs,
                 norm, norm_obs, tool>>

TrClock ==
    /\ transport # None
    /\ \E d \in TrDeltas : ClockAdvance(d, TrAdvances)
    /\ UNCHANGED <<policy, obs, sim, pool_obs, transport, tr_obs, data, result,
                 reflex, run, wc, wc_obs,
                 norm, norm_obs, tool>>

NextTransport ==
    \/ TrEnqueue
    \/ TrTick
    \/ TrClock

SpecTransport == InitTransport /\ [][NextTransport]_vars

\* ------------------------------------ both simulators under the baseline

InitBaseline ==
    /\ now = 0
    /\ n_adv = 0
    /\ obs = ObsInit
    /\ data = None
    /\ result = None
    /\ reflex = None
    /\ run = None
    /\ wc = None
    /\ wc_obs = None
    /\ norm = None
    /\ norm_obs = None
    /\ tool = None
    /\ \/ /\ policy = BaselinePolicyNew("compute")
          /\ sim = ThreadPoolSimNew(RunnerWorkers, 0)
          /\ pool_obs = PoolObsInit
          /\ transport = None
          /\ tr_obs = None
       \/ /\ policy = BaselinePolicyNew("transport")
          /\ transport = FakeTransportNew(0)
          /\ tr_obs = TrObsInit
          /\ sim = None
          /\ pool_obs = None

BaselinePoolClock ==
    /\ sim # None
    /\ PoolClock

NextBaseline ==
    \/ PoolEnqueue
    \/ PoolTick
    \/ BaselinePoolClock
    \/ TrEnqueue
    \/ TrTick
    \/ TrClock

SpecBaseline == InitBaseline /\ [][NextBaseline]_vars

\* The tasks the workers of ws hold.
HeldTasks(ws) ==
    {Unwrap(ws[i].current_task) : i \in {j \in 1..Len(ws) : ~WorkerIsIdle(ws[j])}}

\* A step keeps the busy workers: a worker that holds a task is still in the
\* pool afterwards, with its task and finish time, unless the step is a tick at
\* or after its finish time, which records the completion; and a task the
\* step takes from the queue is on a worker afterwards.
KeepsBusyWorkers ==
    /\ \A i \in 1..Len(sim.workers) :
          ~WorkerIsIdle(sim.workers[i]) =>
              \/ \E j \in 1..Len(sim'.workers) : sim'.workers[j] = sim.workers[i]
              \/ /\ pool_obs'.n_ticks # pool_obs.n_ticks
                 /\ now >= sim.workers[i].task_finish_time[1]
                 /\ Len(sim'.metrics.task_times_us) > Len(sim.metrics.task_times_us)
    /\ \A k \in 1..Len(sim.queue) :
          \/ \E j \in 1..Len(sim'.queue) : sim'.queue[j] = sim.queue[k]
          \/ \E t \in HeldTasks(sim'.workers) :
                /\ t.id = sim.queue[k].id
                /\ t.start_time = <<now>>

\* C4: no enqueue and no tick removes a worker that holds a task, whatever
\* the target (0 included): resize_workers removes idle workers only, so a task
\* given to a worker stays on that worker until a tick completes it.
C4_BusyWorkersNeverRemoved == [][KeepsBusyWorkers]_vars

\* A tick asked for no workers at all while two were busy: both are still there.
C4_Witness ==
    /\ pool_obs.decision = <<[n_workers |-> 0]>>
    /\ Len(sim.workers) = 2
    /\ BusyWorkers(sim.workers) = 2

\* C8: in one tick completions come first, then assignments, then telemetry,
\* then decide, then the resize: when a worker's task has finish_time <= now and
\* a task is queued, the finished task is recorded and the head of the queue is
\* started in that same tick; and the telemetry handed to decide has the queue
\* length and the busy count of the state after the tick, with the pool size
\* of the state before it (the resize has not happened yet).
C8_TickOrder ==
    [][pool_obs'.n_ticks # pool_obs.n_ticks =>
         LET done == {i \in 1..Len(sim.workers) :
                         /\ sim.workers[i].task_finish_time # None
                         /\ sim.workers[i].task_finish_time[1] <= now}
             telem == pool_obs'.telem[1]
             busy == BusyWorkers(sim'.workers)
         IN  /\ Len(sim'.metrics.task_times_us)
                  = Len(sim.metrics.task_times_us) + Cardinality(done)
             /\ (done # {} /\ sim.queue # <<>>) =>
                    \E t \in HeldTasks(sim'.workers) :
                        /\ t.id = Head(sim.queue).id
                        /\ t.start_time = <<now>>
             /\ telem.runq_len = Len(sim'.queue)
             /\ telem.idle_worker_count = Len(sim.workers) - busy
             /\ telem.worker_util =
                    (IF Len(sim.workers) = 0 THEN <<0, 1>>
                     ELSE <<busy, Len(sim.workers)>>)
      ]_vars

\* A one-worker pool finished task 0 and started task 1 in the same tick; the
\* telemetry saw the one busy worker, and the resize then grew the pool to two.
C8_Witness ==
    /\ pool_obs.telem # None
    /\ pool_obs.telem[1].worker_util = <<1, 1>>
    /\ pool_obs.telem[1].runq_len = 0
    /\ Len(sim.metrics.task_times_us) = 1
    /\ sim.completion_count_window # <<>>
    /\ sim.completion_count_window[Len(sim.completion_count_window)][1] = now
    /\ Len(sim.workers) = 2
    /\ sim.workers[1].current_task # None
    /\ sim.workers[1].current_task[1].id = 1
    /\ sim.workers[1].current_task[1].start_time = <<now>>

\* C5: with 8 workers all busy and a policy that returns 2 at every tick, no
\* step removes a busy worker (a worker leaves its task only at a tick at or
\* after its finish time), and once all eight tasks have completed the pool
\* has 2 workers, and keeps 2.
C5_ResizeDownConverges ==
    [][/\ KeepsBusyWorkers
       /\ Len(sim'.workers) >= ScenarioTarget
       /\ Len(sim'.metrics.task_times_us) = ScenarioWorkers =>
              Len(sim'.workers) = ScenarioTarget
      ]_vars

\* All eight tasks have completed, at different ticks, and the pool is down to two.
C5_Witness ==
    /\ Len(sim.metrics.task_times_us) = ScenarioWorkers
    /\ Len(sim.workers) = ScenarioTarget
    /\ Len(sim.completion_count_window) = ScenarioWorkers
    /\ sim.completion_count_window[1][1] < sim.completion_count_window[ScenarioWorkers][1]

\* C6: a transport tick flushes exactly when the queue length is at least the
\* threshold, or the oldest resident packet's age is at least max_delay_us, of
\* the decision the policy returned in that tick.  A flush leaves the queue
\* empty and records the latency of every packet it drained; a tick that does
\* not flush leaves the queue and the latencies as they were.
C6_FlushIff ==
    [][tr_obs'.n_ticks # tr_obs.n_ticks =>
         LET d == tr_obs'.decision[1]
             q == transport.queue
             due == \/ Len(q) >= d.threshold
                    \/ (q # <<>> /\ now - q[1].arrival_time >= d.max_delay_us)
             lat == transport.metrics.latencies_us
             lat2 == transport'.metrics.latencies_us
         IN  IF due
             THEN /\ transport'.queue = <<>>
                  /\ Len(lat2) = Len(lat) + Len(q)
                  /\ SubSeq(lat2, 1, Len(lat)) = lat
                  /\ \A k \in 1..Len(q) :
                        lat2[Len(lat) + k] = now - q[k].arrival_time
             ELSE /\ transport'.queue = q
                  /\ lat2 = lat
      ]_vars

\* A tick flushed two packets on their age alone, the queue being shorter
\* than the threshold.
C6_Witness ==
    /\ tr_obs.decision # None
    /\ tr_obs.decision[1].threshold > 2
    /\ transport.last_decision = tr_obs.decision
    /\ transport.queue = <<>>
    /\ transport.next_packet_id = 2
    /\ Len(transport.metrics.latencies_us) = 2
    /\ transport.metrics.latencies_us[1] = tr_obs.decision[1].max_delay_us
    /\ transport.metrics.latencies_us[2] < tr_obs.decision[1].max_delay_us

\* C7: the baseline policies are static.  In the transport simulator every
\* decision is (threshold 16, max_delay_us 500), in the worker-pool simulator
\* every decision is n_workers 8, and decision_changes stays 0 through any
\* sequence of enqueue and tick calls.
C7_BaselineStatic ==
    /\ transport # None =>
          /\ transport.metrics.decision_changes = 0
          /\ tr_obs.decision \in {<<>>, <<[threshold |-> 16, max_delay_us |-> 500]>>}
          /\ transport.last_decision = tr_obs.decision
    /\ sim # None =>
          /\ sim.metrics.decision_changes = 0
          /\ pool_obs.decision \in {<<>>, <<[n_workers |-> 8]>>}
          /\ sim.last_decision = pool_obs.decision

\* Two ticks have run under the baseline, with a packet flushed or a task
\* completed in between.
C7_Witness ==
    \/ /\ transport # None
       /\ tr_obs.n_ticks >= 2
       /\ transport.metrics.latencies_us # <<>>
    \/ /\ sim # None
       /\ pool_obs.n_ticks >= 2
       /\ sim.metrics.task_times_us # <<>>

\* ------------------------------------------- .reflex container, decoding

\* The bytes are numbers 0..255; u16 and u32 fields are little-endian.  A
\* u32 that is only stored or compared (the checksum) and the u64
\* created_at_unix stay byte tuples, low byte first; a u32 that is used as a
\* length is a number.

\* How many times a stored artifact is damaged or resealed before it is read.
MaxEdits == 3

MAGIC == <<78, 69, 77, 49>>

VERSION == 1

HeaderSize == 29

ChecksumSize == 4

DecisionTree == 0

\* One bit of a ^ b per step, n bits in all.
RECURSIVE XorBits(_, _, _)
XorBits(a, b, n) ==
    IF n = 0 THEN 0
    ELSE ((a + b) % 2) + 2 * XorBits(a \div 2, b \div 2, n - 1)

\* a ^ b on bytes, tabulated once.
XorTable == [a \in 0..255 |-> [b \in 0..255 |-> XorBits(a, b, 8)]]

Xor8(a, b) == XorTable[a][b]

Xor32(x, y) ==
    <<Xor8(x[1], y[1]), Xor8(x[2], y[2]), Xor8(x[3], y[3]), Xor8(x[4], y[4])>>

\* x >> 1 on a 32-bit word held low byte first.
Shr1(x) ==
    <<(x[1] \div 2) + (x[2] % 2) * 128,
      (x[2] \div 2) + (x[3] % 2) * 128,
      (x[3] \div 2) + (x[4] % 2) * 128,
      x[4] \div 2>>

\* x >> 8.
Shr8(x) == <<x[2], x[3], x[4], 0>>

\* The reflected IEEE polynomial 0xEDB88320.
CrcPoly == <<32, 131, 184, 237>>

RECURSIVE CrcRounds(_, _)
CrcRounds(c, n) ==
    IF n = 0 THEN c
    ELSE CrcRounds(IF c[1] % 2 = 1 THEN Xor32(CrcPoly, Shr1(c)) ELSE Shr1(c),
                   n - 1)

CrcTable == [b \in 0..255 |-> CrcRounds(<<b, 0, 0, 0>>, 8)]

\* One byte of the table-driven update.
CrcStep(c, b) == Xor32(CrcTable[Xor8(c[1], b)], Shr8(c))

\* The register c after the bytes at the zero-based offsets lo .. hi - 1,
\* the range taken by halves.  The test on Len(c) has the register of the
\* left half evaluated before the right half is entered, which keeps the
\* evaluation shallow.
RECURSIVE CrcUpdate(_, _, _, _)
CrcUpdate(c, bytes, lo, hi) ==
    IF Len(c) # 4 \/ hi = lo THEN c
    ELSE IF hi = lo + 1 THEN CrcStep(c, bytes[hi])
    ELSE CrcUpdate(CrcUpdate(c, bytes, lo, (lo + hi) \div 2),
                   bytes, (lo + hi) \div 2, hi)

\* crc32fast::hash: CRC-32 (IEEE), initial value and final xor 0xFFFFFFFF;
\* the result is the u32's to_le_bytes.
Crc32(bytes) ==
    Xor32(CrcUpdate(<<255, 255, 255, 255>>, bytes, 0, Len(bytes)),
          <<255, 255, 255, 255>>)

U16ToLe(n) == <<n % 256, n \div 256>>

U16FromLe(b) == b[1] + 256 * b[2]

U32ToLe(n) ==
    <<n % 256, (n \div 256) % 256, (n \div 65536) % 256, n \div 16777216>>

U32FromLe(b) == b[1] + 256 * b[2] + 65536 * b[3] + 16777216 * b[4]

\* &bytes[from..to], zero-based and half-open; Rust panics unless
\* from <= to <= bytes.len().
SliceInRange(bytes, from, to) == from <= to /\ to <= Len(bytes)

Slice(bytes, from, to) == SubSeq(bytes, from + 1, to)

\* ReflexHeader::new
ReflexHeaderNew(model_type, feature_count, output_count, created_at_unix, model_size_bytes, bounds_size_bytes, metadata_size_bytes) ==
    [magic               |-> MAGIC,
     version             |-> VERSION,
     model_type          |-> model_type,
     feature_count       |-> feature_count,
     output_count        |-> output_count,
     created_at_unix     |-> created_at_unix,
     model_size_bytes    |-> model_size_bytes,
     bounds_size_bytes   |-> bounds_size_bytes,
     metadata_size_bytes |-> metadata_size_bytes]

\* ReflexHeader::to_bytes.
HeaderToBytes(h) ==
    h.magic \o U16ToLe(h.version)
        \o <<h.model_type, h.feature_count, h.output_count>>
        \o h.created_at_unix
        \o U32ToLe(h.model_size_bytes)
        \o U32ToLe(h.bounds_size_bytes)
        \o U32ToLe(h.metadata_size_bytes)

\* ReflexHeader::from_bytes on at least 29 bytes.
HeaderFromBytes(bytes) ==
    [magic               |-> Slice(bytes, 0, 4),
     version             |-> U16FromLe(Slice(bytes, 4, 6)),
     model_type          |-> bytes[7],
     feature_count       |-> bytes[8],
     output_count        |-> bytes[9],
     created_at_unix     |-> Slice(bytes, 9, 17),
     model_size_bytes    |-> U32FromLe(Slice(bytes, 17, 21)),
     bounds_size_bytes   |-> U32FromLe(Slice(bytes, 21, 25)),
     metadata_size_bytes |-> U32FromLe(Slice(bytes, 25, 29))]

Err(msg) == [tag |-> "Err", msg |-> msg]

Ok(v) == [tag |-> "Ok", value |-> v]

\* A panic: the call does not return.
Panic(msg) == [tag |-> "Panic", msg |-> msg]

\* ReflexHeader::validate with the version test left out.
ValidateIgnoresVersion(h) ==
    IF h.magic # MAGIC THEN Err("Invalid magic") ELSE Ok(h)

\* ReflexHeader::validate.
HeaderValidate(h) ==
    IF h.magic # MAGIC THEN Err("Invalid magic")
    ELSE IF h.version # VERSION THEN Err("Unsupported version")
    ELSE Ok(h)

\* TreeNode::leaf
Leaf(value) == [feature_idx |-> 255, threshold |-> value, left |-> 0, right |-> 0]

\* TreeNode::split
Split(feature_idx, threshold, left, right) ==
    [feature_idx |-> feature_idx, threshold |-> threshold,
     left |-> left, right |-> right]

\* TreeNode::is_leaf
IsLeaf(node) == node.feature_idx = 255

\* The payloads of the model's reflex: one tree of a single leaf 10.0, the
\* bounds [0.0, 100.0] and a metadata record.
TestTrees == <<<<Leaf(Num(20))>>>>

TestBounds == [min |-> <<Num(0)>>, max |-> <<Num(200)>>]

TestMetadata ==
    [created_at |-> "", trainer_commit |-> "", feature_schema |-> "v1",
     telemetry_hash |-> "", lambda |-> Num(1), notes |-> ""]

\* The tree of the crate's test: if feature[0] <= 0.5 then 10.0 else 20.0.
SplitTree == <<Split(0, Num(1), 1, 2), Leaf(Num(20)), Leaf(Num(40))>>

SplitTrees == <<SplitTree>>

\* Two trees, two outputs: the test's tree and a single leaf 30.0.
PairTrees == <<SplitTree, <<Leaf(Num(60))>>>>

\* Trees no trainer should write and no reader refuses: a node that is its
\* own child, two nodes that are each other's, a leaf value NaN, a feature
\* index past the sample, a child position past the tree, and no node at all.
SelfLoopTrees == <<<<Split(0, Num(1), 0, 0)>>>>

TwoCycleTrees ==
    <<<<Split(0, Num(1), 1, 2), Split(0, Num(1), 0, 2), Leaf(Num(40))>>>>

NanLeafTrees == <<<<Leaf(NaN)>>>>

FeaturePastSampleTrees ==
    <<<<Split(1, Num(1), 1, 2), Leaf(Num(20)), Leaf(Num(40))>>>>

ChildPastTreeTrees ==
    <<<<Split(0, Num(1), 1, 5), Leaf(Num(20)), Leaf(Num(40))>>>>

EmptyTreeTrees == <<<<>>>>

ModelTrees ==
    {TestTrees, SplitTrees, PairTrees, SelfLoopTrees, TwoCycleTrees,
     NanLeafTrees, FeaturePastSampleTrees, ChildPastTreeTrees, EmptyTreeTrees}

\* Bounds [12, 15], the same crossed, arrays of unequal length, and two
\* outputs.
TightBounds == [min |-> <<Num(24)>>, max |-> <<Num(30)>>]

CrossedBounds == [min |-> <<Num(30)>>, max |-> <<Num(24)>>]

UnevenBounds == [min |-> <<Num(0), Num(0)>>, max |-> <<Num(200)>>]

PairBounds == [min |-> <<Num(0), Num(0)>>, max |-> <<Num(200), Num(200)>>]

ModelBounds == {TestBounds, TightBounds, CrossedBounds, UnevenBounds, PairBounds}

ModelMetadata == {TestMetadata}

\* The decimal digits of a natural number.
RECURSIVE DecText(_)
DecText(n) ==
    IF n < 10 THEN <<48 + n>>
    ELSE DecText(n \div 10) \o <<48 + (n % 10)>>

\* serde_json's text of an f32: the shortest decimal that reads back as the
\* same value, always with a fraction ("10.0", "0.5"), and null for NaN and
\* the infinities.
F32Text(x) ==
    IF x[1] # "num" THEN <<110, 117, 108, 108>>
    ELSE LET h == IF x[2] < 0 THEN 0 - x[2] ELSE x[2]
         IN  (IF x[2] < 0 THEN <<45>> ELSE <<>>)
                 \o DecText(h \div 2) \o <<46>>
                 \o (IF h % 2 = 0 THEN <<48>> ELSE <<53>>)

\* The bytes of the strings the model's metadata holds.
StrBytes(s) == IF s = "v1" THEN <<118, 49>> ELSE <<>>

\* serde_json's text of a String (no character here needs an escape).
StrText(s) == <<34>> \o StrBytes(s) \o <<34>>

\* texts[from], ..., texts[Len(texts)] with a comma between them.
RECURSIVE JoinFrom(_, _)
JoinFrom(texts, from) ==
    IF from > Len(texts) THEN <<>>
    ELSE IF from = Len(texts) THEN texts[from]
    ELSE texts[from] \o <<44>> \o JoinFrom(texts, from + 1)

\* serde_json's text of a Vec, given the texts of its elements.
VecText(texts) == <<91>> \o JoinFrom(texts, 1) \o <<93>>

\* {"feature_idx":..,"threshold":..,"left":..,"right":..}
NodeText(node) ==
    <<123, 34, 102, 101, 97, 116, 117, 114, 101, 95, 105, 100, 120, 34, 58>>
        \o DecText(node.feature_idx)
        \o <<44, 34, 116, 104, 114, 101, 115, 104, 111, 108, 100, 34, 58>>
        \o F32Text(node.threshold)
        \o <<44, 34, 108, 101, 102, 116, 34, 58>>
        \o DecText(node.left)
        \o <<44, 34, 114, 105, 103, 104, 116, 34, 58>>
        \o DecText(node.right)
        \o <<125>>

TreeText(tree) == VecText([i \in 1..Len(tree) |-> NodeText(tree[i])])

TreesText(trees) == VecText([i \in 1..Len(trees) |-> TreeText(trees[i])])

F32VecText(xs) == VecText([i \in 1..Len(xs) |-> F32Text(xs[i])])

\* {"min":[..],"max":[..]}
BoundsText(bounds) ==
    <<123, 34, 109, 105, 110, 34, 58>> \o F32VecText(bounds.min)
        \o <<44, 34, 109, 97, 120, 34, 58>> \o F32VecText(bounds.max)
        \o <<125>>

\* {"created_at":..,"trainer_commit":..,"feature_schema":..,
\*  "telemetry_hash":..,"lambda":..,"notes":..}
MetadataText(md) ==
    <<123, 34, 99, 114, 101, 97, 116, 101, 100, 95, 97, 116, 34, 58>>
        \o StrText(md.created_at)
        \o <<44, 34, 116, 114, 97, 105, 110, 101, 114, 95, 99, 111, 109, 109,
             105, 116, 34, 58>>
        \o StrText(md.trainer_commit)
        \o <<44, 34, 102, 101, 97, 116, 117, 114, 101, 95, 115, 99, 104, 101,
             109, 97, 34, 58>>
        \o StrText(md.feature_schema)
        \o <<44, 34, 116, 101, 108, 101, 109, 101, 116, 114, 121, 95, 104, 97,
             115, 104, 34, 58>>
        \o StrText(md.telemetry_hash)
        \o <<44, 34, 108, 97, 109, 98, 100, 97, 34, 58>>
        \o F32Text(md.lambda)
        \o <<44, 34, 110, 111, 116, 101, 115, 34, 58>>
        \o StrText(md.notes)
        \o <<125>>

\* Every f32 of the sequence is finite: null does not read back as an f32.
AllFinite(xs) == \A i \in 1..Len(xs) : xs[i][1] = "num"

\* The JSON texts serde_json writes for the model's values, and whether
\* serde_json reads the text back.  Fields come in declaration order, with
\* no white space.
TreesJson ==
    {[value  |-> v,
      text   |-> TreesText(v),
      parses |-> \A t \in 1..Len(v) :
                     AllFinite([i \in 1..Len(v[t]) |-> v[t][i].threshold])]
        : v \in ModelTrees}

BoundsJson ==
    {[value  |-> v,
      text   |-> BoundsText(v),
      parses |-> AllFinite(v.min) /\ AllFinite(v.max)]
        : v \in ModelBounds}

MetadataJson ==
    {[value  |-> v,
      text   |-> MetadataText(v),
      parses |-> AllFinite(<<v.lambda>>)]
        : v \in ModelMetadata}

\* serde_json::to_vec of a value of the table.
ToVec(json, v) == (CHOOSE e \in json : e.value = v).text

\* serde_json::from_slice::<T>: the value when the slice is the text of a T,
\* an error otherwise.  The slices the model hands it are a text, a proper
\* prefix of a text (end of input), or a text followed by the first bytes of
\* the next one (trailing characters).
FromSlice(json, slice) ==
    IF \E e \in json : e.text = slice /\ e.parses
    THEN Ok((CHOOSE e \in json : e.text = slice /\ e.parses).value)
    ELSE Err("json")

\* created_at_unix 1728000000, as in the crate's round-trip test.
TestCreatedAt == <<0, 48, 255, 102, 0, 0, 0, 0>>

\* The reflex of the crate's round-trip test with a single leaf per tree: the
\* header is built with the three sizes 0, as callers do before to_bytes.
TestReflex ==
    [header   |-> ReflexHeaderNew(DecisionTree, 1, 1, TestCreatedAt, 0, 0, 0),
     trees    |-> TestTrees,
     bounds   |-> TestBounds,
     metadata |-> TestMetadata]

\* Reflex::to_bytes with feature_count and output_count written in each
\* other's place.
ToBytesSwapsCounts(r) ==
    LET model_bytes    == ToVec(TreesJson, r.trees)
        bounds_bytes   == ToVec(BoundsJson, r.bounds)
        metadata_bytes == ToVec(MetadataJson, r.metadata)
        header == ReflexHeaderNew(DecisionTree, r.header.output_count,
                                  r.header.feature_count,
                                  r.header.created_at_unix,
                                  Len(model_bytes), Len(bounds_bytes),
                                  Len(metadata_bytes))
        buf == HeaderToBytes(header) \o model_bytes \o bounds_bytes
                   \o metadata_bytes
    IN  buf \o Crc32(buf)

\* Reflex::to_bytes.
ToBytes(r) ==
    LET model_bytes    == ToVec(TreesJson, r.trees)
        bounds_bytes   == ToVec(BoundsJson, r.bounds)
        metadata_bytes == ToVec(MetadataJson, r.metadata)
        header == ReflexHeaderNew(DecisionTree, r.header.feature_count,
                                  r.header.output_count,
                                  r.header.created_at_unix,
                                  Len(model_bytes), Len(bounds_bytes),
                                  Len(metadata_bytes))
        buf == HeaderToBytes(header) \o model_bytes \o bounds_bytes
                   \o metadata_bytes
    IN  buf \o Crc32(buf)

\* The three payloads of Reflex::from_bytes, after the header is accepted.
\* Each slice is taken before it is parsed, and a slice that ends past the
\* payload panics.
ParsePayloads(header, payload) ==
    LET model_end    == HeaderSize + header.model_size_bytes
        bounds_end   == model_end + header.bounds_size_bytes
        metadata_end == bounds_end + header.metadata_size_bytes
        trees    == FromSlice(TreesJson, Slice(payload, HeaderSize, model_end))
        bounds   == FromSlice(BoundsJson, Slice(payload, model_end, bounds_end))
        metadata == FromSlice(MetadataJson,
                              Slice(payload, bounds_end, metadata_end))
    IN  IF ~SliceInRange(payload, HeaderSize, model_end)
        THEN Panic("range end index out of range for slice")
        ELSE IF trees.tag = "Err" THEN trees
        ELSE IF ~SliceInRange(payload, model_end, bounds_end)
        THEN Panic("range end index out of range for slice")
        ELSE IF bounds.tag = "Err" THEN bounds
        ELSE IF ~SliceInRange(payload, bounds_end, metadata_end)
        THEN Panic("range end index out of range for slice")
        ELSE IF metadata.tag = "Err" THEN metadata
        ELSE Ok([header   |-> header,
                 trees    |-> trees.value,
                 bounds   |-> bounds.value,
                 metadata |-> metadata.value])

\* Reflex::from_bytes with the checksum comparison left out.
FromBytesNoCrcCheck(bytes) ==
    IF Len(bytes) < HeaderSize + ChecksumSize THEN Err("Data too short")
    ELSE LET payload == Slice(bytes, 0, Len(bytes) - ChecksumSize)
             header  == HeaderFromBytes(Slice(payload, 0, HeaderSize))
         IN  IF HeaderValidate(header).tag = "Err"
             THEN HeaderValidate(header)
             ELSE ParsePayloads(header, payload)

\* Reflex::from_bytes with the length test left out: data.len() - 4
\* underflows on fewer than four bytes, and &payload[..29] panics on a
\* payload of fewer than 29.
FromBytesNoLengthCheck(bytes) ==
    IF Len(bytes) < ChecksumSize THEN Panic("attempt to subtract with overflow")
    ELSE LET payload_len  == Len(bytes) - ChecksumSize
             payload      == Slice(bytes, 0, payload_len)
             expected_crc == Slice(bytes, payload_len, Len(bytes))
             header       == HeaderFromBytes(Slice(payload, 0, HeaderSize))
         IN  IF Crc32(payload) # expected_crc THEN Err("CRC mismatch")
             ELSE IF payload_len < HeaderSize
             THEN Panic("range end index out of range for slice")
             ELSE IF HeaderValidate(header).tag = "Err"
             THEN HeaderValidate(header)
             ELSE ParsePayloads(header, payload)

\* Reflex::from_bytes comparing the first three bytes of the checksum only.
FromBytesComparesThreeCrcBytes(bytes) ==
    IF Len(bytes) < HeaderSize + ChecksumSize THEN Err("Data too short")
    ELSE LET payload_len  == Len(bytes) - ChecksumSize
             payload      == Slice(bytes, 0, payload_len)
             expected_crc == Slice(bytes, payload_len, Len(bytes))
             header       == HeaderFromBytes(Slice(payload, 0, HeaderSize))
         IN  IF SubSeq(Crc32(payload), 1, 3) # SubSeq(expected_crc, 1, 3)
             THEN Err("CRC mismatch")
             ELSE IF HeaderValidate(header).tag = "Err"
             THEN HeaderValidate(header)
             ELSE ParsePayloads(header, payload)

\* Reflex::from_bytes.
FromBytes(bytes) ==
    IF Len(bytes) < HeaderSize + ChecksumSize THEN Err("Data too short")
    ELSE LET payload_len  == Len(bytes) - ChecksumSize
             payload      == Slice(bytes, 0, payload_len)
             expected_crc == Slice(bytes, payload_len, Len(bytes))
             header       == HeaderFromBytes(Slice(payload, 0, HeaderSize))
         IN  IF Crc32(payload) # expected_crc THEN Err("CRC mismatch")
             ELSE IF HeaderValidate(header).tag = "Err"
             THEN HeaderValidate(header)
             ELSE ParsePayloads(header, payload)

\* ------------------------------------------------ a stored artifact, read

\* Header offsets a damaged artifact differs at (zero-based): the magic, the
\* two version bytes, and the two low bytes of each of model_size_bytes,
\* bounds_size_bytes and metadata_size_bytes; the last byte of the buffer,
\* which is in the checksum, is damaged as well.  The size fields stay far
\* below 2^31.
PatchOffsets == {0, 4, 5, 17, 18, 21, 22, 25, 26}

PatchValues == {0, 1, 60}

\* Lengths a damaged artifact is cut to.
TruncLens == {0, 32, 33, 92}

WellFormedReflexes == {TestReflex}

\* bytes with the byte at the zero-based offset replaced.
Patch(bytes, offset, v) == [bytes EXCEPT ![offset + 1] = v]

\* bytes with its last four bytes replaced by the CRC-32 of the bytes before.
Reseal(bytes) ==
    LET body == Slice(bytes, 0, Len(bytes) - ChecksumSize)
    IN  body \o Crc32(body)

InitDecode ==
    /\ now = 0
    /\ n_adv = 0
    /\ policy = None
    /\ obs = ObsInit
    /\ sim = None
    /\ pool_obs = None
    /\ transport = None
    /\ tr_obs = None
    /\ data \in {[bytes |-> ToBytes(r), n_edits |-> 0] : r \in WellFormedReflexes}
    /\ result = None
    /\ reflex = None
    /\ run = None
    /\ wc = None
    /\ wc_obs = None
    /\ norm = None
    /\ norm_obs = None
    /\ tool = None

Edited(bytes) ==
    /\ result = None
    /\ data.n_edits < MaxEdits
    /\ data' = [bytes |-> bytes, n_edits |-> data.n_edits + 1]
    /\ UNCHANGED <<now, n_adv, policy, obs, sim, pool_obs, transport, tr_obs, result,
                 reflex, run, wc, wc_obs,
                 norm, norm_obs, tool>>

\* One byte of the stored artifact changes.
DataPatch ==
    \E offset \in PatchOffsets \cup {Len(data.bytes) - 1}, v \in PatchValues :
        /\ 0 <= offset
        /\ offset < Len(data.bytes)
        /\ Edited(Patch(data.bytes, offset, v))

\* The stored artifact loses its end.
DataTruncate ==
    \E n \in TruncLens :
        /\ n < Len(data.bytes)
        /\ Edited(Slice(data.bytes, 0, n))

\* Bytes a stored artifact is padded with: a NUL and a blank.
PadValues == {0, 32}

\* bytes with one more byte between the last payload and the checksum.
Pad(bytes, v) ==
    Slice(bytes, 0, Len(bytes) - ChecksumSize) \o <<v>>
        \o Slice(bytes, Len(bytes) - ChecksumSize, Len(bytes))

\* The stored artifact gets an extra byte in front of its checksum.
DataPad ==
    \E v \in PadValues :
        /\ Len(data.bytes) >= ChecksumSize
        /\ Edited(Pad(data.bytes, v))

\* The checksum of the stored bytes is written anew.
DataReseal ==
    /\ Len(data.bytes) >= ChecksumSize
    /\ Edited(Reseal(data.bytes))

\* The loader calls Reflex::from_bytes(&data).
Decode ==
    /\ result = None
    /\ result' = Some(FromBytes(data.bytes))
    /\ UNCHANGED <<now, n_adv, policy, obs, sim, pool_obs, transport, tr_obs, data,
                 reflex, run, wc, wc_obs,
                 norm, norm_obs, tool>>

NextDecode ==
    \/ DataPatch
    \/ DataTruncate
    \/ DataPad
    \/ DataReseal
    \/ Decode

SpecDecode == InitDecode /\ [][NextDecode]_vars

\* The last four bytes of a buffer of at least four bytes are the CRC-32 of
\* the bytes before them.
CrcValid(bytes) ==
    SubSeq(bytes, Len(bytes) - 3, Len(bytes))
        = Crc32(SubSeq(bytes, 1, Len(bytes) - 4))

\* C9: Reflex::from_bytes returns an error, and never a reflex, for every
\* buffer that is shorter than 33 bytes, or whose last four bytes are not the
\* CRC-32 of the preceding bytes, or whose magic is not NEM1, or whose
\* version is not 1.
C9_BadBufferIsError ==
    result # None =>
        LET b == data.bytes
        IN  (\/ Len(b) < 33
             \/ ~CrcValid(b)
             \/ SubSeq(b, 1, 4) # <<78, 69, 77, 49>>
             \/ b[5] + 256 * b[6] # 1)
            => result[1].tag = "Err"

\* A buffer of full length with a valid checksum and the magic NEM1 but
\* version 257 was refused.
C9_Witness ==
    /\ result # None
    /\ Len(data.bytes) = 222
    /\ CrcValid(data.bytes)
    /\ SubSeq(data.bytes, 1, 4) = <<78, 69, 77, 49>>
    /\ data.bytes[5] + 256 * data.bytes[6] = 257
    /\ result[1].tag = "Err"

\* The three declared payload sizes of a buffer of at least 33 bytes reach
\* past the bytes before the checksum.
Overruns(bytes) ==
    LET M == U32FromLe(SubSeq(bytes, 18, 21))
        B == U32FromLe(SubSeq(bytes, 22, 25))
        D == U32FromLe(SubSeq(bytes, 26, 29))
    IN  29 + M + B + D > Len(bytes) - 4

\* The buffer passes the three tests that come before the payloads.
HeaderAccepted(bytes) ==
    /\ Len(bytes) >= 33
    /\ CrcValid(bytes)
    /\ SubSeq(bytes, 1, 4) = <<78, 69, 77, 49>>
    /\ bytes[5] + 256 * bytes[6] = 1

\* C10: for every buffer with a valid CRC, magic and version whose declared
\* model, bounds or metadata size overruns the bytes available before the
\* CRC, decode returns an error value; it neither aborts nor returns a
\* partially constructed reflex.
C10_OverrunIsError ==
    (result # None /\ HeaderAccepted(data.bytes) /\ Overruns(data.bytes))
        => result[1].tag = "Err"

\* The header alone, resealed: a 33-byte buffer with a valid CRC, magic and
\* version that declares 59 + 27 + 103 payload bytes and holds none.  The
\* slice of the model payload panics.
C10_Witness ==
    /\ result # None
    /\ Len(data.bytes) = 33
    /\ HeaderAccepted(data.bytes)
    /\ Overruns(data.bytes)
    /\ result[1].tag = "Panic"

\* ---------------------------------------------------------------------------
\* Encoding, decoding and damage in transit (Reflex::to_bytes, from_bytes)
\* ---------------------------------------------------------------------------

\* A Reflex in memory, built as the crate's test builds it: the header from
\* ReflexHeader::new with the three sizes 0.
ReflexOf(trees, bounds, feature_count, output_count) ==
    [header   |-> ReflexHeaderNew(DecisionTree, feature_count, output_count,
                                  TestCreatedAt, 0, 0, 0),
     trees    |-> trees,
     bounds   |-> bounds,
     metadata |-> TestMetadata]

\* The reflex of the crate's test, and the same tree under bounds [12, 15].
SplitReflex == ReflexOf(SplitTrees, TestBounds, 1, 1)

TightReflex == ReflexOf(SplitTrees, TightBounds, 1, 1)

\* Two trees and two outputs.
PairReflex == ReflexOf(PairTrees, PairBounds, 1, 2)

\* Reflexes a trainer should not write: bounds crossed, bounds arrays of
\* unequal length, an output count the bounds do not match, trees with a
\* cycle, a leaf value NaN, and trees that index out of range.
CrossedReflex == ReflexOf(SplitTrees, CrossedBounds, 1, 1)

UnevenReflex == ReflexOf(SplitTrees, UnevenBounds, 1, 1)

MiscountReflex == ReflexOf(SplitTrees, TestBounds, 1, 2)

SelfLoopReflex == ReflexOf(SelfLoopTrees, TestBounds, 1, 1)

TwoCycleReflex == ReflexOf(TwoCycleTrees, TestBounds, 1, 1)

NanLeafReflex == ReflexOf(NanLeafTrees, TestBounds, 1, 1)

FeaturePastSampleReflex == ReflexOf(FeaturePastSampleTrees, TestBounds, 1, 1)

ChildPastTreeReflex == ReflexOf(ChildPastTreeTrees, TestBounds, 1, 1)

EmptyTreeReflex == ReflexOf(EmptyTreeTrees, TestBounds, 1, 1)

\* The reflexes that are encoded and read back.
CodecReflexes ==
    {TestReflex, SplitReflex, PairReflex, UnevenReflex, MiscountReflex,
     SelfLoopReflex}

\* 2^k for a bit position of a byte.
BitMask(k) == <<1, 2, 4, 8, 16, 32, 64, 128>>[k + 1]

\* The buffer with bit k of the byte at offset (from 0) inverted.
FlipBit(bytes, offset, k) ==
    [bytes EXCEPT ![offset + 1] = Xor8(bytes[offset + 1], BitMask(k))]

InitCodec ==
    /\ now = 0
    /\ n_adv = 0
    /\ policy = None
    /\ obs = ObsInit
    /\ sim = None
    /\ pool_obs = None
    /\ transport = None
    /\ tr_obs = None
    /\ data = [bytes |-> <<>>, n_edits |-> 0]
    /\ result = None
    /\ reflex \in {Some(r) : r \in CodecReflexes}
    /\ run = None
    /\ wc = None
    /\ wc_obs = None
    /\ norm = None
    /\ norm_obs = None
    /\ tool = None

\* Reflex::to_bytes on the reflex in memory.
Encode ==
    /\ Len(data.bytes) = 0
    /\ data' = [bytes |-> ToBytes(Unwrap(reflex)), n_edits |-> 0]
    /\ UNCHANGED <<now, n_adv, policy, obs, sim, pool_obs, transport, tr_obs,
                 run, wc, wc_obs, reflex, result,
                 norm, norm_obs, tool>>

\* One bit of the encoded buffer is inverted before it is read back.
BitFlip ==
    /\ Len(data.bytes) > 0
    /\ data.n_edits = 0
    /\ result = None
    /\ \E offset \in 0..(Len(data.bytes) - 1), k \in 0..7 :
           data' = [bytes |-> FlipBit(data.bytes, offset, k), n_edits |-> 1]
    /\ UNCHANGED <<now, n_adv, policy, obs, sim, pool_obs, transport, tr_obs,
                 run, wc, wc_obs, reflex, result,
                 norm, norm_obs, tool>>

\* Reflex::from_bytes on the buffer.
CodecDecode ==
    /\ Len(data.bytes) > 0
    /\ result = None
    /\ result' = Some(FromBytes(data.bytes))
    /\ UNCHANGED <<now, n_adv, policy, obs, sim, pool_obs, transport, tr_obs,
                 run, wc, wc_obs, reflex, data,
                 norm, norm_obs, tool>>

NextCodec == Encode \/ BitFlip \/ CodecDecode

SpecCodec == InitCodec /\ [][NextCodec]_vars

\* from_bytes returned a reflex.
Decoded == result # None /\ Unwrap(result).tag = "Ok"

\* C11: every reflex that decode returns has bounds arrays min and max of the
\* same length, and that length is the header's output_count (decode fails
\* otherwise).
C11_BoundsMatchOutputCount ==
    Decoded =>
        LET r == Unwrap(result).value
        IN  /\ Len(r.bounds.min) = Len(r.bounds.max)
            /\ Len(r.bounds.min) = r.header.output_count

\* decode read a buffer back whose bounds arrays differ in length or do not
\* match the output count.
C11_Witness ==
    /\ result # None
    /\ data.n_edits = 0
    /\ Unwrap(reflex) \in {UnevenReflex, MiscountReflex}

\* Every path from the root of the tree ends at a leaf: children lie after
\* their parent and inside the tree, and internal nodes read a feature of
\* the sample.
TreeWellFormed(tree, feature_count) ==
    /\ Len(tree) > 0
    /\ \A i \in 1..Len(tree) :
           /\ tree[i].threshold[1] = "num"
           /\ IsLeaf(tree[i]) \/
                  /\ tree[i].feature_idx < feature_count
                  /\ tree[i].left >= i /\ tree[i].left < Len(tree)
                  /\ tree[i].right >= i /\ tree[i].right < Len(tree)

\* A well-formed reflex: one tree per output, bounds for every output with
\* min <= max, finite numbers, well-formed trees.
WellFormed(r) ==
    /\ Len(r.trees) = r.header.output_count
    /\ Len(r.bounds.min) = r.header.output_count
    /\ Len(r.bounds.max) = r.header.output_count
    /\ AllFinite(r.bounds.min) /\ AllFinite(r.bounds.max)
    /\ \A i \in 1..Len(r.bounds.min) : ~FLt(r.bounds.max[i], r.bounds.min[i])
    /\ r.metadata.lambda[1] = "num"
    /\ \A t \in 1..Len(r.trees) : TreeWellFormed(r.trees[t], r.header.feature_count)

\* The last four bytes of an encoded reflex.
CrcOf(bytes) == Slice(bytes, Len(bytes) - ChecksumSize, Len(bytes))

\* C12: for every well-formed reflex R, decoding the bytes that encode R
\* succeeds and yields R's trees, bounds, metadata, feature_count,
\* output_count and created_at_unix, and encoding the decoded reflex again
\* yields the same CRC.
C12_RoundTrip ==
    (result # None /\ data.n_edits = 0 /\ WellFormed(Unwrap(reflex))) =>
        /\ Unwrap(result).tag = "Ok"
        /\ LET r == Unwrap(reflex)
               d == Unwrap(result).value
           IN  /\ d.trees = r.trees
               /\ d.bounds = r.bounds
               /\ d.metadata = r.metadata
               /\ d.header.feature_count = r.header.feature_count
               /\ d.header.output_count = r.header.output_count
               /\ d.header.created_at_unix = r.header.created_at_unix
               /\ CrcOf(ToBytes(d)) = CrcOf(data.bytes)

\* A well-formed reflex of two trees went through to_bytes and from_bytes.
C12_Witness ==
    /\ Decoded
    /\ data.n_edits = 0
    /\ Unwrap(reflex) = PairReflex
    /\ WellFormed(Unwrap(reflex))

\* C13: for every encoded reflex and every bit of it (header, payloads or
\* checksum), decoding the buffer with that one bit inverted fails with an
\* error: it returns no reflex (and does not panic).
C13_BitFlipIsError ==
    (result # None /\ data.n_edits = 1) => Unwrap(result).tag = "Err"

\* decode read a buffer in which one bit of model_size_bytes was inverted.
C13_Witness ==
    /\ result # None
    /\ data.n_edits = 1
    /\ data.bytes[18] # ToBytes(Unwrap(reflex))[18]

\* ---------------------------------------------------------------------------
\* Inference (Reflex::infer, Reflex::eval_tree)
\* ---------------------------------------------------------------------------

\* The reflexes that are evaluated.
ModelReflexes ==
    {TestReflex, SplitReflex, TightReflex, PairReflex, CrossedReflex,
     UnevenReflex, MiscountReflex, SelfLoopReflex, TwoCycleReflex,
     NanLeafReflex, FeaturePastSampleReflex, ChildPastTreeReflex,
     EmptyTreeReflex}

\* The samples infer is called with: none, [0.3], [0.5], [0.7], [NaN] and
\* [0.3, 0.7].
FeatureVectors ==
    {<<>>, <<Tenth(3)>>, <<Num(1)>>, <<Tenth(7)>>, <<NaN>>,
     <<Tenth(3), Tenth(7)>>}

\* f32::clamp: panics unless min <= max (so also when a bound is NaN), and
\* returns NaN for NaN.
FClamp(x, min, max) ==
    IF ~FLe(min, max) THEN Panic("min > max, or either was NaN")
    ELSE IF FLt(x, min) THEN Ok(min)
    ELSE IF FLt(max, x) THEN Ok(max)
    ELSE Ok(x)

\* One turn of the clamp loop of infer: output.clamp(min[i], max[i]), the
\* two bounds being indexed before clamp is called.
ClampAt(outputs, bounds, i) ==
    IF i > Len(bounds.min) \/ i > Len(bounds.max)
    THEN Panic("index out of bounds")
    ELSE FClamp(outputs[i], bounds.min[i], bounds.max[i])

\* The clamp loop of infer: the outputs clamped in order, or the first panic.
ClampLoop(outputs, bounds) ==
    LET panics == {i \in 1..Len(outputs) :
                       ClampAt(outputs, bounds, i).tag = "Panic"}
    IN  IF panics # {}
        THEN ClampAt(outputs, bounds,
                     CHOOSE i \in panics : \A j \in panics : i <= j)
        ELSE Ok([i \in 1..Len(outputs) |-> ClampAt(outputs, bounds, i).value])

\* A call of infer: the sample, the tree being evaluated (from 1), node_idx,
\* the outputs pushed so far, how the call stands, and, for the record, the
\* leaf values the descents reached and whether the number of turns the
\* loop of eval_tree has taken is odd.
Running(features, tree, node_idx, outputs) ==
    [features |-> features, tree |-> tree, node_idx |-> node_idx,
     outputs |-> outputs, status |-> "running", msg |-> "",
     leaves |-> outputs, odd_turn |-> FALSE]

Returned(r, outputs) ==
    [r EXCEPT !.outputs = outputs, !.status = "returned"]

Panicked(r, msg) ==
    [r EXCEPT !.status = "panicked", !.msg = msg]

InitInfer ==
    /\ now = 0
    /\ n_adv = 0
    /\ policy = None
    /\ obs = ObsInit
    /\ sim = None
    /\ pool_obs = None
    /\ transport = None
    /\ tr_obs = None
    /\ result = None
    /\ \E r \in ModelReflexes :
           \/ /\ reflex = Some(r)
              /\ data = [bytes |-> <<>>, n_edits |-> 0]
           \/ /\ reflex = None
              /\ data = [bytes |-> ToBytes(r), n_edits |-> 0]
    /\ run = None
    /\ wc = None
    /\ wc_obs = None
    /\ norm = None
    /\ norm_obs = None
    /\ tool = None

\* The loader reads the artifact with Reflex::from_bytes and keeps the
\* reflex it returns.
LoadReflex ==
    /\ reflex = None
    /\ result = None
    /\ Len(data.bytes) > 0
    /\ result' = Some(FromBytes(data.bytes))
    /\ reflex' = IF FromBytes(data.bytes).tag = "Ok"
                 THEN Some(FromBytes(data.bytes).value)
                 ELSE None
    /\ UNCHANGED <<now, n_adv, policy, obs, sim, pool_obs, transport, tr_obs,
                 wc, wc_obs, data, run,
                 norm, norm_obs, tool>>

\* infer(features) up to its first tree: the assert_eq on the sample's
\* length, and the empty output vector.
InferCall ==
    /\ reflex # None
    /\ run = None
    /\ \E features \in FeatureVectors :
           run' = Some(
               IF Len(features) # Unwrap(reflex).header.feature_count
               THEN Panicked(Running(features, 1, 0, <<>>),
                             "Feature count mismatch")
               ELSE Running(features, 1, 0, <<>>))
    /\ UNCHANGED <<now, n_adv, policy, obs, sim, pool_obs, transport, tr_obs,
                 wc, wc_obs, data, result, reflex,
                 norm, norm_obs, tool>>

\* eval_tree with < in place of <=.
EvalTreeTurnStrict(r, trees) ==
    LET tree == trees[r.tree]
        node == tree[r.node_idx + 1]
    IN  IF r.node_idx >= Len(tree)
        THEN Panicked(r, "index out of bounds")
        ELSE IF IsLeaf(node)
        THEN [r EXCEPT !.outputs = Append(r.outputs, node.threshold),
                       !.leaves = Append(r.leaves, node.threshold),
                       !.tree = r.tree + 1,
                       !.node_idx = 0]
        ELSE IF node.feature_idx >= Len(r.features)
        THEN Panicked(r, "index out of bounds")
        ELSE IF FLt(r.features[node.feature_idx + 1], node.threshold)
        THEN [r EXCEPT !.node_idx = node.left]
        ELSE [r EXCEPT !.node_idx = node.right]

\* eval_tree reading 0.0 for a feature the sample does not have.
EvalTreeTurnUnchecked(r, trees) ==
    LET tree == trees[r.tree]
        node == tree[r.node_idx + 1]
        feature_val == IF node.feature_idx >= Len(r.features) THEN Num(0)
                       ELSE r.features[node.feature_idx + 1]
    IN  IF r.node_idx >= Len(tree)
        THEN Panicked(r, "index out of bounds")
        ELSE IF IsLeaf(node)
        THEN [r EXCEPT !.outputs = Append(r.outputs, node.threshold),
                       !.leaves = Append(r.leaves, node.threshold),
                       !.tree = r.tree + 1,
                       !.node_idx = 0]
        ELSE IF FLe(feature_val, node.threshold)
        THEN [r EXCEPT !.node_idx = node.left]
        ELSE [r EXCEPT !.node_idx = node.right]

\* One turn of the loop of eval_tree, with the push of infer when the node
\* is a leaf.
EvalTreeTurn(r, trees) ==
    LET tree == trees[r.tree]
        node == tree[r.node_idx + 1]
    IN  IF r.node_idx >= Len(tree)
        THEN Panicked(r, "index out of bounds")
        ELSE IF IsLeaf(node)
        THEN [r EXCEPT !.outputs = Append(r.outputs, node.threshold),
                       !.leaves = Append(r.leaves, node.threshold),
                       !.tree = r.tree + 1,
                       !.node_idx = 0]
        ELSE IF node.feature_idx >= Len(r.features)
        THEN Panicked(r, "index out of bounds")
        ELSE IF FLe(r.features[node.feature_idx + 1], node.threshold)
        THEN [r EXCEPT !.node_idx = node.left]
        ELSE [r EXCEPT !.node_idx = node.right]

\* The running call of infer takes one turn of the loop of eval_tree.
EvalTreeStep ==
    /\ run # None
    /\ Unwrap(run).status = "running"
    /\ Unwrap(run).tree <= Len(Unwrap(reflex).trees)
    /\ run' = Some([EvalTreeTurn(Unwrap(run), Unwrap(reflex).trees)
                        EXCEPT !.odd_turn = ~Unwrap(run).odd_turn])
    /\ UNCHANGED <<now, n_adv, policy, obs, sim, pool_obs, transport, tr_obs,
                 wc, wc_obs, data, result, reflex,
                 norm, norm_obs, tool>>

\* Every tree is evaluated: infer clamps the outputs and returns them.
InferClamp ==
    /\ run # None
    /\ Unwrap(run).status = "running"
    /\ Unwrap(run).tree > Len(Unwrap(reflex).trees)
    /\ LET r == Unwrap(run)
           clamped == ClampLoop(r.outputs, Unwrap(reflex).bounds)
       IN  run' = Some(IF clamped.tag = "Panic"
                       THEN Panicked(r, clamped.msg)
                       ELSE Returned(r, clamped.value))
    /\ UNCHANGED <<now, n_adv, policy, obs, sim, pool_obs, transport, tr_obs,
                 wc, wc_obs, data, result, reflex,
                 norm, norm_obs, tool>>

NextInfer == LoadReflex \/ InferCall \/ EvalTreeStep \/ InferClamp

SpecInfer == InitInfer /\ [][NextInfer]_vars

\* The thread that called infer keeps running it.
SpecInferFair ==
    InitInfer /\ [][NextInfer]_vars
        /\ WF_vars(EvalTreeStep) /\ WF_vars(InferClamp)

\* The call of infer has returned its output vector.
InferReturned == run # None /\ Unwrap(run).status = "returned"

\* The call of infer is over: it returned or it panicked.
InferOver == run # None /\ Unwrap(run).status # "running"

\* The call of infer on this sample returned these outputs from a reflex
\* of these trees and bounds.
Infers(trees, bounds, features, outputs) ==
    (/\ InferReturned
     /\ Unwrap(reflex).trees = trees
     /\ Unwrap(reflex).bounds = bounds
     /\ Unwrap(run).features = features)
        => Unwrap(run).outputs = outputs

\* C14: infer evaluates each tree from node 0, emits the value stored at the
\* leaf it reaches, goes left when feature[feature_idx] <= threshold
\* (equality goes left) and right otherwise, and emits one output per tree,
\* in tree order, nothing summed.  The tree [Split(0, 0.5, 1, 2), Leaf(10),
\* Leaf(20)] under bounds [0, 100] gives 10 for 0.3 and for 0.5, and 20 for
\* 0.7; followed by the tree [Leaf(30)] it gives [10, 30] and [20, 30].
C14_InferFollowsTree ==
    /\ InferReturned => Len(Unwrap(run).outputs) = Len(Unwrap(reflex).trees)
    /\ Infers(SplitTrees, TestBounds, <<Tenth(3)>>, <<Num(20)>>)
    /\ Infers(SplitTrees, TestBounds, <<Num(1)>>, <<Num(20)>>)
    /\ Infers(SplitTrees, TestBounds, <<Tenth(7)>>, <<Num(40)>>)
    /\ Infers(SplitTrees, TestBounds, <<NaN>>, <<Num(40)>>)
    /\ Infers(PairTrees, PairBounds, <<Tenth(3)>>, <<Num(20), Num(60)>>)
    /\ Infers(PairTrees, PairBounds, <<Tenth(7)>>, <<Num(40), Num(60)>>)
    /\ Infers(TestTrees, TestBounds, <<Tenth(7)>>, <<Num(20)>>)
    /\ Infers(ChildPastTreeTrees, TestBounds, <<Tenth(3)>>, <<Num(20)>>)

\* infer returned for the sample [0.5], on the boundary of the split, from
\* the reflex of two trees.
C14_Witness ==
    /\ InferReturned
    /\ Unwrap(reflex).trees = PairTrees
    /\ Unwrap(run).features = <<Num(1)>>
    /\ Unwrap(run).outputs = <<Num(20), Num(60)>>

\* Every descent of the call reached its leaf, and the bounds arrays have an
\* entry for each output.
AllLeavesReached ==
    /\ InferOver
    /\ Len(Unwrap(run).leaves) = Len(Unwrap(reflex).trees)
    /\ Len(Unwrap(reflex).bounds.min) >= Len(Unwrap(run).leaves)
    /\ Len(Unwrap(reflex).bounds.max) >= Len(Unwrap(run).leaves)

\* C15: for every reflex that decode accepts and every sample, output i of
\* infer is min(max(v, bounds.min[i]), bounds.max[i]) for the leaf value v
\* reached in tree i, whatever the two bounds are, bounds.min[i] >
\* bounds.max[i] included.
C15_ClampIsMinMax ==
    (Decoded /\ AllLeavesReached) =>
        /\ InferReturned
        /\ \A i \in 1..Len(Unwrap(run).leaves) :
               Unwrap(run).outputs[i] =
                   FMin(FMax(Unwrap(run).leaves[i], Unwrap(reflex).bounds.min[i]),
                        Unwrap(reflex).bounds.max[i])

\* The loaded reflex has bounds min [15], max [12], and every descent of the
\* call of infer reached its leaf.
C15_Witness ==
    /\ Decoded
    /\ AllLeavesReached
    /\ Unwrap(reflex).bounds = CrossedBounds

\* C16: when the leaf value reached in tree i is NaN, output i of infer is
\* the lower bound bounds.min[i]; NaN never appears in the output vector.
C16_NanLeafGivesLowerBound ==
    AllLeavesReached =>
        \A i \in 1..Len(Unwrap(run).leaves) :
            IsNaN(Unwrap(run).leaves[i]) =>
                /\ InferReturned
                /\ Unwrap(run).outputs[i] = Unwrap(reflex).bounds.min[i]

\* A descent of the call of infer reached a leaf whose value is NaN.
C16_Witness ==
    /\ AllLeavesReached
    /\ \E i \in 1..Len(Unwrap(run).leaves) : IsNaN(Unwrap(run).leaves[i])

\* C17: infer returns no output vector when the sample's length is not
\* feature_count, when a visited internal node's feature_idx is outside the
\* sample, or when a descent reaches a position outside the tree (an empty
\* tree included): the call panics at that point.
C17_OutOfRangeFails ==
    [][/\ (run = None /\ run' # None
              /\ Len(Unwrap(run').features) # Unwrap(reflex).header.feature_count)
           => Unwrap(run').status = "panicked"
       /\ (/\ run # None
           /\ run' # run
           /\ Unwrap(run).status = "running"
           /\ Unwrap(run).tree <= Len(Unwrap(reflex).trees)
           /\ LET tree == Unwrap(reflex).trees[Unwrap(run).tree]
                  n    == Unwrap(run).node_idx
              IN  \/ n >= Len(tree)
                  \/ /\ ~IsLeaf(tree[n + 1])
                     /\ tree[n + 1].feature_idx >= Len(Unwrap(run).features))
           => /\ Unwrap(run').status = "panicked"
              /\ Unwrap(run').outputs = Unwrap(run).outputs]_vars

\* A descent went right to position 5 of a tree of three nodes, and the
\* call panicked there.
C17_Witness ==
    /\ run # None
    /\ Unwrap(run).status = "panicked"
    /\ Unwrap(reflex).trees = ChildPastTreeTrees
    /\ Unwrap(run).node_idx = 5

\* C18: for every reflex that decode accepts and every sample of
\* feature_count values, infer terminates: every descent from node 0 reaches
\* a leaf after finitely many turns of the loop.
C18_InferTerminates ==
    (/\ Decoded
     /\ run # None
     /\ Len(Unwrap(run).features) = Unwrap(reflex).header.feature_count)
        ~> InferOver

\* decode accepted a tree whose node 1 has its parent, node 0, as a child,
\* and a descent of infer stands at node 1.
C18_Witness ==
    /\ Decoded
    /\ run # None
    /\ Unwrap(run).status = "running"
    /\ Unwrap(reflex).trees = TwoCycleTrees
    /\ Unwrap(run).node_idx = 1

\* ---------------------------------------------------------------------------
\* WindowCollector (telemetry and telemetry-compute: the same code)
\* ---------------------------------------------------------------------------

\* At most this many samples are pushed in a run.
MaxPushes == 3

\* The clock advances at most this many times in a run of the collector.
WcAdvances == 3

\* window_size and step_size of the collectors, and the steps of the clock,
\* in ticks of the clock.
WindowSizes == {0, 2}

StepSizes == {1, 2}

WcDeltas == {1, 2}

\* How far the clock may move between the two readings emit takes.
EmitLags == {0, 1}

\* WindowCollector::new
WindowCollectorNew(window_size, step_size) ==
    [window_size |-> window_size, step_size |-> step_size,
     samples |-> <<>>, last_window_at |-> None]

\* The eviction loop of push: the front entry goes while it is older than
\* the cutoff.
RECURSIVE EvictLoop(_, _)
EvictLoop(samples, cutoff) ==
    IF samples # <<>> /\ Head(samples)[1] < cutoff
    THEN EvictLoop(Tail(samples), cutoff)
    ELSE samples

\* The eviction loop of push with <= in place of <.
RECURSIVE EvictLoopAtCutoff(_, _)
EvictLoopAtCutoff(samples, cutoff) ==
    IF samples # <<>> /\ Head(samples)[1] <= cutoff
    THEN EvictLoopAtCutoff(Tail(samples), cutoff)
    ELSE samples

\* WindowCollector::push evicting the entries at the cutoff as well.
PushEvictsAtCutoff(c, sample, t) ==
    [c EXCEPT !.samples = EvictLoopAtCutoff(Append(c.samples, <<t, sample>>),
                                            t - c.window_size)]

\* WindowCollector::push, the clock reading t.
Push(c, sample, t) ==
    [c EXCEPT !.samples = EvictLoop(Append(c.samples, <<t, sample>>),
                                    t - c.window_size)]

\* Instant::duration_since: zero when the other instant is later.
DurationSince(t, earlier) == IF t >= earlier THEN t - earlier ELSE 0

\* WindowCollector::should_emit with > in place of >=.
ShouldEmitStrict(c, t) ==
    IF c.last_window_at = None THEN c.samples # <<>>
    ELSE DurationSince(t, Unwrap(c.last_window_at)) > c.step_size

\* WindowCollector::should_emit, the clock reading t.
ShouldEmit(c, t) ==
    IF c.last_window_at = None THEN c.samples # <<>>
    ELSE DurationSince(t, Unwrap(c.last_window_at)) >= c.step_size

\* WindowCollector::emit leaving last_window_at as it was.
EmitForgetsTime(c, t, t2) ==
    IF ~ShouldEmit(c, t) THEN [wc |-> c, ret |-> None]
    ELSE [wc  |-> c,
          ret |-> IF c.samples = <<>> THEN None
                  ELSE Some(c.samples[Len(c.samples)][2])]

\* WindowCollector::emit: should_emit reads the clock (t), and emit reads
\* it again (t2) for last_window_at.  The collector after the call and what
\* the call returned.
Emit(c, t, t2) ==
    IF ~ShouldEmit(c, t) THEN [wc |-> c, ret |-> None]
    ELSE [wc  |-> [c EXCEPT !.last_window_at = Some(t2)],
          ret |-> IF c.samples = <<>> THEN None
                  ELSE Some(c.samples[Len(c.samples)][2])]

\* What the caller of the collector has seen: the last call, the clock
\* readings it took, the collector before it, what it returned, the number
\* of pushes so far, the last entry pushed, and the two clock readings of
\* every emit that returned a sample.
WcObsInit ==
    [op |-> "new", at |-> 0, at2 |-> 0, before |-> None, ret |-> None,
     n_push |-> 0, last_push |-> None, emitted |-> <<>>]

InitWindow ==
    /\ now = 0
    /\ n_adv = 0
    /\ policy = None
    /\ obs = ObsInit
    /\ sim = None
    /\ pool_obs = None
    /\ transport = None
    /\ tr_obs = None
    /\ data = [bytes |-> <<>>, n_edits |-> 0]
    /\ result = None
    /\ reflex = None
    /\ run = None
    /\ wc \in {Some(WindowCollectorNew(w, s)) : w \in WindowSizes, s \in StepSizes}
    /\ wc_obs = WcObsInit
    /\ norm = None
    /\ norm_obs = None
    /\ tool = None

\* wc.push(sample): the samples are numbered in the order they are pushed.
WcPush ==
    /\ wc_obs.n_push < MaxPushes
    /\ wc' = Some(Push(Unwrap(wc), wc_obs.n_push + 1, now))
    /\ wc_obs' = [op |-> "push", at |-> now, at2 |-> now, before |-> wc,
                  ret |-> None, n_push |-> wc_obs.n_push + 1,
                  last_push |-> Some(<<now, wc_obs.n_push + 1>>),
                  emitted |-> wc_obs.emitted]
    /\ UNCHANGED <<now, n_adv, policy, obs, sim, pool_obs, transport, tr_obs, data, result,
                 reflex, run,
                 norm, norm_obs, tool>>

\* wc.emit(): the clock may move between the two readings.
WcEmit ==
    \E lag \in EmitLags :
        /\ lag > 0 => n_adv < WcAdvances
        /\ now' = now + lag
        /\ n_adv' = IF lag > 0 THEN n_adv + 1 ELSE n_adv
        /\ wc' = Some(Emit(Unwrap(wc), now, now + lag).wc)
        /\ wc_obs' = [wc_obs EXCEPT !.op = "emit", !.at = now,
                                    !.at2 = now + lag, !.before = wc,
                                    !.ret = Emit(Unwrap(wc), now, now + lag).ret,
                                    !.emitted =
                                        IF Emit(Unwrap(wc), now, now + lag).ret = None
                                        THEN wc_obs.emitted
                                        ELSE Append(wc_obs.emitted, <<now, now + lag>>)]
        /\ UNCHANGED <<policy, obs, sim, pool_obs, transport, tr_obs, data, result,
                 reflex, run,
                 norm, norm_obs, tool>>

\* Time passes between two calls.
WcClock ==
    /\ \E d \in WcDeltas : ClockAdvance(d, WcAdvances)
    /\ UNCHANGED <<policy, obs, sim, pool_obs, transport, tr_obs, data, result,
                 reflex, run, wc, wc_obs,
                 norm, norm_obs, tool>>

NextWindow == WcPush \/ WcEmit \/ WcClock

SpecWindow == InitWindow /\ [][NextWindow]_vars

\* The entries are in the order of their timestamps.
OrderedByTime(samples) ==
    \A i \in 1..Len(samples), j \in 1..Len(samples) :
        i <= j => samples[i][1] <= samples[j][1]

\* The entries of the sequence that are not older than the cutoff.
NotOlderThan(samples, cutoff) ==
    LET Retained(e) == e[1] >= cutoff
    IN  SelectSeq(samples, Retained)

\* C19: push appends the sample stamped with the clock's reading and removes
\* every entry older than that reading less window_size; after any pushes
\* the buffer is ordered by timestamp, its last entry is the sample pushed
\* last, and no retained entry is older than the last push less window_size.
C19_PushKeepsWindow ==
    /\ wc_obs.op = "push" =>
           Unwrap(wc).samples =
               NotOlderThan(Append(Unwrap(wc_obs.before).samples,
                                   <<wc_obs.at, wc_obs.n_push>>),
                            wc_obs.at - Unwrap(wc).window_size)
    /\ wc_obs.last_push # None =>
           LET samples == Unwrap(wc).samples
               last    == Unwrap(wc_obs.last_push)
           IN  /\ OrderedByTime(samples)
               /\ samples # <<>>
               /\ samples[Len(samples)] = last
               /\ \A i \in 1..Len(samples) :
                      samples[i][1] >= last[1] - Unwrap(wc).window_size

\* A push evicted an older entry and kept one stamped exactly at the cutoff.
C19_Witness ==
    /\ wc_obs.op = "push"
    /\ Len(Unwrap(wc).samples) = 2
    /\ Len(Unwrap(wc_obs.before).samples) = 2
    /\ Unwrap(wc).samples[1][1] = wc_obs.at - Unwrap(wc).window_size

\* C20: emit returns a sample exactly when no window was emitted yet and
\* the buffer is not empty, or the clock is at least step_size past the last
\* emission; it then sets last_window_at to the clock's reading and returns
\* the sample pushed last.  Otherwise it returns nothing and leaves
\* last_window_at unchanged.  emit never removes a sample.
C20_EmitIffShouldEmit ==
    wc_obs.op = "emit" =>
        LET before == Unwrap(wc_obs.before)
            should ==
                \/ before.last_window_at = None /\ before.samples # <<>>
                \/ /\ before.last_window_at # None
                   /\ wc_obs.at - Unwrap(before.last_window_at) >= before.step_size
        IN  /\ wc_obs.ret # None <=> should
            /\ should =>
                   /\ Unwrap(wc).last_window_at = Some(wc_obs.at2)
                   /\ wc_obs.at <= wc_obs.at2
                   /\ wc_obs.ret = Some(Unwrap(wc_obs.last_push)[2])
            /\ ~should => wc = wc_obs.before
            /\ Unwrap(wc).samples = before.samples

\* emit returned a sample a second time, a step after the first emission,
\* and two samples are in the buffer.
C20_Witness ==
    /\ wc_obs.op = "emit"
    /\ wc_obs.ret # None
    /\ Unwrap(wc_obs.before).last_window_at # None
    /\ Len(Unwrap(wc).samples) = 2

\* C21: at most one sample per step: any two calls of emit that return a
\* sample are at least step_size apart, by the clock reading at which they
\* were allowed and by the one they stored.
C21_OneSamplePerStep ==
    \A i \in 1..Len(wc_obs.emitted), j \in 1..Len(wc_obs.emitted) :
        i < j =>
            /\ wc_obs.emitted[j][1] - wc_obs.emitted[i][1] >= Unwrap(wc).step_size
            /\ wc_obs.emitted[j][2] - wc_obs.emitted[i][2] >= Unwrap(wc).step_size

\* emit returned a sample twice, the second time exactly step_size after
\* the reading the first one stored.
C21_Witness ==
    /\ Len(wc_obs.emitted) >= 2
    /\ wc_obs.emitted[2][1] - wc_obs.emitted[1][2] = Unwrap(wc).step_size

\* ---------------------------------------------------------------------------
\* Normalizer (telemetry and telemetry-compute: the same code)
\* ---------------------------------------------------------------------------

\* The feature arrays of the model have this many components (FEATURE_COUNT
\* is 10; observe and normalize treat every component alike).
NormFeatures == 2

\* observe is called at most this many times in a run.
MaxObserves == 2

RECURSIVE Gcd(_, _)
Gcd(a, b) == IF b = 0 THEN a ELSE Gcd(b, a % b)

Abs(n) == IF n < 0 THEN 0 - n ELSE n

\* The finite value n / d (d > 0), written as the model writes it: in halves
\* where it can be, as a quotient in lowest terms elsewhere.
FromRat(n, d) ==
    LET g == Gcd(Abs(n), d)
    IN  IF 2 % (d \div g) = 0 THEN Num((n \div g) * (2 \div (d \div g)))
        ELSE Rat(n \div g, d \div g)

\* -x on f32.
FNeg(x) == IF IsNaN(x) THEN x ELSE IF Rank(x) # 0 THEN <<x[1], 0 - x[2]>>
           ELSE FromRat(0 - AsRat(x)[1], AsRat(x)[2])

\* x - y on f32, exact on the finite values of the model: f32::MAX absorbs
\* them, and f32::MAX - f32::MIN overflows to +inf.
FSub(x, y) ==
    IF IsNaN(x) \/ IsNaN(y) THEN NaN
    ELSE IF x[1] = "inf" THEN (IF y = x THEN NaN ELSE x)
    ELSE IF y[1] = "inf" THEN FNeg(y)
    ELSE IF x[1] = "max"
    THEN (IF y = x THEN Num(0) ELSE IF y[1] = "max" THEN <<"inf", x[2]>> ELSE x)
    ELSE IF y[1] = "max" THEN FNeg(y)
    ELSE FromRat(AsRat(x)[1] * AsRat(y)[2] - AsRat(y)[1] * AsRat(x)[2],
                 AsRat(x)[2] * AsRat(y)[2])

\* x / y on f32 for a divisor that is positive and finite (not f32::MAX) or
\* +inf, exact on the finite values of the model.
FDivPos(x, y) ==
    IF IsNaN(x) \/ IsNaN(y) THEN NaN
    ELSE IF y[1] = "inf" THEN (IF x[1] = "inf" THEN NaN ELSE Num(0))
    ELSE IF x[1] = "inf" THEN x
    ELSE FromRat(AsRat(x)[1] * AsRat(y)[2], AsRat(x)[2] * AsRat(y)[1])

\* [v; FEATURE_COUNT]
Filled(v) == [i \in 1..NormFeatures |-> v]

\* Normalizer::new starting from the range [0.0, 1.0] for every feature.
NormalizerNewUnit == [min |-> Filled(Num(0)), max |-> Filled(Num(2))]

\* Normalizer::new
NormalizerNew == [min |-> Filled(F32Max), max |-> Filled(F32Min)]

\* Normalizer::observe that lets the first sample set both bounds and then
\* only widens max.
NormalizerObserveMaxOnly(n, features) ==
    [min |-> [i \in 1..NormFeatures |->
                 IF n.min[i] = F32Max THEN features[i] ELSE n.min[i]],
     max |-> [i \in 1..NormFeatures |-> FMax(n.max[i], features[i])]]

\* Normalizer::observe
NormalizerObserve(n, features) ==
    [min |-> [i \in 1..NormFeatures |-> FMin(n.min[i], features[i])],
     max |-> [i \in 1..NormFeatures |-> FMax(n.max[i], features[i])]]

\* Normalizer::normalize clipping its results to [0, 1].
NormalizerNormalizeClipped(n, features) ==
    [i \in 1..NormFeatures |->
        LET range == FSub(n.max[i], n.min[i])
            q     == FDivPos(FSub(features[i], n.min[i]), range)
        IN  IF FLt(Num(0), range)
            THEN (IF FLt(q, Num(0)) THEN Num(0)
                  ELSE IF FLt(Num(2), q) THEN Num(2) ELSE q)
            ELSE Num(1)]

\* Normalizer::normalize
NormalizerNormalize(n, features) ==
    [i \in 1..NormFeatures |->
        LET range == FSub(n.max[i], n.min[i])
        IN  IF FLt(Num(0), range)
            THEN FDivPos(FSub(features[i], n.min[i]), range)
            ELSE Num(1)]

\* The components of the samples that are observed (0, 10 and 20) and of
\* those that are normalized (these, -5, 15, 25, NaN and the infinities).
ObservedValues == {Num(0), Num(20), Num(40)}

NormalizedValues ==
    ObservedValues \cup {Num(0 - 10), Num(30), Num(50), NaN, PosInf, NegInf}

Arrays(values) == [1..NormFeatures -> values]

\* What the caller has seen: the last call, its argument, what it returned,
\* and, for every component, the values observed so far.
NormObsInit ==
    [op |-> "new", features |-> <<>>, ret |-> <<>>,
     observed |-> [i \in 1..NormFeatures |-> {}], n_observe |-> 0]

InitNormalizer ==
    /\ now = 0
    /\ n_adv = 0
    /\ policy = None
    /\ obs = ObsInit
    /\ sim = None
    /\ pool_obs = None
    /\ transport = None
    /\ tr_obs = None
    /\ data = [bytes |-> <<>>, n_edits |-> 0]
    /\ result = None
    /\ reflex = None
    /\ run = None
    /\ wc = None
    /\ wc_obs = None
    /\ norm = NormalizerNew
    /\ norm_obs = NormObsInit
    /\ tool = None

\* norm.observe(&features)
NormObserve ==
    /\ norm_obs.n_observe < MaxObserves
    /\ \E features \in Arrays(ObservedValues) :
           /\ norm' = NormalizerObserve(norm, features)
           /\ norm_obs' = [op |-> "observe", features |-> features, ret |-> <<>>,
                           observed |-> [i \in 1..NormFeatures |->
                                            norm_obs.observed[i] \cup {features[i]}],
                           n_observe |-> norm_obs.n_observe + 1]
    /\ UNCHANGED <<now, n_adv, policy, obs, sim, pool_obs, transport, tr_obs, data, result,
                 reflex, run, wc, wc_obs, tool>>

\* norm.normalize(&features), which leaves the normalizer as it is.
NormNormalize ==
    /\ \E features \in Arrays(NormalizedValues) :
           norm_obs' = [norm_obs EXCEPT !.op = "normalize",
                                        !.features = features,
                                        !.ret = NormalizerNormalize(norm, features)]
    /\ UNCHANGED <<now, n_adv, policy, obs, sim, pool_obs, transport, tr_obs, data, result,
                 reflex, run, wc, wc_obs, tool, norm>>

NextNormalizer == NormObserve \/ NormNormalize

SpecNormalizer == InitNormalizer /\ [][NextNormalizer]_vars

C24_PlaceholdersAreZero ==
    (transport # None /\ tr_obs.telem # None) =>
        LET telem == Unwrap(tr_obs.telem)
        IN  /\ telem.enqueue_rate = Num(0)
            /\ telem.dequeue_rate = Num(0)
            /\ telem.bytes_in_per_sec = Num(0)
            /\ telem.bytes_out_per_sec = Num(0)
            /\ telem.rtt_ewma_us = Num(0)
            /\ telem.queue_depth = tr_obs.queue_len

\* A tick that flushed two packets composed a sample with queue_depth 2,
\* the four rates 0 and rtt_ewma_us 50.
C24_Witness ==
    /\ transport # None
    /\ tr_obs.telem # None
    /\ transport.queue = <<>>
    /\ Unwrap(tr_obs.telem) =
           [queue_depth |-> 2, enqueue_rate |-> Num(0), dequeue_rate |-> Num(0),
            bytes_in_per_sec |-> Num(0), bytes_out_per_sec |-> Num(0),
            rtt_ewma_us |-> Num(100)]

\* ------------------------------------------------------------- binaries

\* sweep.rs: let pool_sizes = [1, 2, 4, 8, 16, 32, 64]
PoolSizes == <<1, 2, 4, 8, 16, 32, 64>>

\* f64::MAX, the first best_p95 of sweep.
F64Max == <<"max", 1>>

\* The p95 task times, in microseconds, that a run of the simulation may
\* report: Metrics::percentile returns 0.0 or a u64 task time as f64. What a
\* run measures depends on the wall clock, so every value is possible for
\* every pool size.
P95Samples == {Num(0), Num(800), Num(1800)}

\* str::parse::<f64> and str::parse::<u64> on the arguments of the model.
ParsesF64(s) == s \in {"100", "500", "5", "1.5", "-1"}

ParsesU64(s) == s \in {"100", "500", "5"}

\* The command lines: argv[0] and the arguments.
SweepArgs ==
    {<<"sweep">>, <<"sweep", "100", "500">>, <<"sweep", "100", "500", "5">>,
     <<"sweep", "abc", "500", "5">>, <<"sweep", "100", "1.5", "5">>,
     <<"sweep", "100", "500", "-1">>}

InspectArgs == {<<"inspect">>, <<"inspect", "model.reflex">>}

\* The reflex file: missing, an artifact written by to_bytes (one leaf, on
\* which the test inference of inspect returns), and its first ten bytes.
ReflexFiles ==
    {None, Some(ToBytes(TestReflex)), Some(SubSeq(ToBytes(TestReflex), 1, 10))}

\* The normalizer file: missing, a text that is no Normalizer, and the text
\* of one.
NormalizerFiles == {None, Some("{}"), Some("normalizer")}

\* std::fs::read and std::fs::read_to_string
FsRead(file) == IF file = None THEN Err("No such file") ELSE Ok(Unwrap(file))

\* serde_json::from_str::<Normalizer>
NormalizerFromStr(text) ==
    IF text = "normalizer" THEN Ok(NormalizerNew) ELSE Err("json")

\* sim_compute::ReflexPolicy::load
ComputeReflexPolicyLoad(file) ==
    LET bytes == FsRead(file)
    IN  IF bytes.tag # "Ok" THEN bytes
        ELSE LET r == FromBytes(bytes.value)
             IN  IF r.tag # "Ok" THEN r ELSE Ok(ReflexPolicyLoad("compute"))

\* A process at the start of main.
ToolStart(bin, args, reflex_file, normalizer_file) ==
    [bin |-> bin, args |-> args, reflex_file |-> reflex_file,
     normalizer_file |-> normalizer_file,
     pc |-> "main", exit_code |-> 0 - 1,
     i |-> 0, best_n |-> 0, best_p95 |-> F64Max, table |-> <<>>,
     report |-> None]

\* The process has ended with this status: the argument of process::exit, 0
\* when main returned, and 101 when the main thread panicked (the status
\* with which Rust's runtime ends the process after an `expect` that failed).
Exited(t, code) == [t EXCEPT !.pc = "exited", !.exit_code = code]

\* sweep.rs main up to the loop: the usage test and the three parses.
SweepMainOp(t) ==
    IF Len(t.args) < 4 THEN Exited(t, 1)
    ELSE IF ~ParsesF64(t.args[2]) THEN Exited(t, 101)
    ELSE IF ~ParsesU64(t.args[3]) THEN Exited(t, 101)
    ELSE IF ~ParsesU64(t.args[4]) THEN Exited(t, 101)
    ELSE [t EXCEPT !.pc = "sweep", !.i = 1, !.best_n = 1, !.best_p95 = F64Max]

\* One turn of sweep's loop that keeps the later pool size on a tie.
SweepTurnKeepsLast(t, p95) ==
    LET n == PoolSizes[t.i]
        better == ~FLt(t.best_p95, p95)
    IN  [t EXCEPT !.table = Append(@, [n |-> n, p95 |-> p95]),
                  !.best_p95 = IF better THEN p95 ELSE @,
                  !.best_n = IF better THEN n ELSE @,
                  !.i = @ + 1]

\* One turn of sweep's loop: run_simulation(n, ..) measured p95.
SweepTurn(t, p95) ==
    LET n == PoolSizes[t.i]
        better == FLt(p95, t.best_p95)
    IN  [t EXCEPT !.table = Append(@, [n |-> n, p95 |-> p95]),
                  !.best_p95 = IF better THEN p95 ELSE @,
                  !.best_n = IF better THEN n ELSE @,
                  !.i = @ + 1]

\* sweep.rs main after the loop: "Best N: {} (p95 = {:.0} µs)", and return.
SweepReportOp(t) ==
    Exited([t EXCEPT !.report = Some([best_n |-> t.best_n,
                                      best_p95 |-> t.best_p95])],
           0)

\* inspect.rs main
InspectMainOp(t) ==
    IF Len(t.args) < 2 THEN Exited(t, 1)
    ELSE LET bytes == FsRead(t.reflex_file)
         IN  IF bytes.tag # "Ok" THEN Exited(t, 101)
             ELSE IF FromBytes(bytes.value).tag # "Ok" THEN Exited(t, 101)
             ELSE Exited(t, 0)

\* sim-compute's reflex.rs main; the simulation it runs for eleven seconds
\* is the pool simulator's and ends by returning from main.
ReflexMainOp(t) ==
    LET text == FsRead(t.normalizer_file)
    IN  IF text.tag # "Ok" THEN Exited(t, 101)
        ELSE IF NormalizerFromStr(text.value).tag # "Ok" THEN Exited(t, 101)
        ELSE IF ComputeReflexPolicyLoad(t.reflex_file).tag # "Ok"
        THEN Exited(t, 101)
        ELSE Exited(t, 0)

InitTools ==
    /\ now = 0
    /\ n_adv = 0
    /\ policy = None
    /\ obs = ObsInit
    /\ sim = None
    /\ pool_obs = None
    /\ transport = None
    /\ tr_obs = None
    /\ data = None
    /\ result = None
    /\ reflex = None
    /\ run = None
    /\ wc = None
    /\ wc_obs = None
    /\ norm = None
    /\ norm_obs = None
    /\ \/ \E args \in SweepArgs : tool = ToolStart("sweep", args, None, None)
       \/ \E args \in InspectArgs, f \in ReflexFiles :
              tool = ToolStart("inspect", args, f, None)
       \/ \E f \in ReflexFiles, nf \in NormalizerFiles :
              tool = ToolStart("reflex", <<"reflex">>, f, nf)

SweepMain ==
    /\ tool # None
    /\ tool.bin = "sweep" /\ tool.pc = "main"
    /\ tool' = SweepMainOp(tool)
    /\ UNCHANGED <<now, n_adv, policy, obs, sim, pool_obs, transport, tr_obs,
                 data, result, reflex, run, wc, wc_obs,
                 norm, norm_obs>>

SweepRun ==
    /\ tool # None
    /\ tool.bin = "sweep" /\ tool.pc = "sweep"
    /\ tool.i <= Len(PoolSizes)
    /\ \E p95 \in P95Samples : tool' = SweepTurn(tool, p95)
    /\ UNCHANGED <<now, n_adv, policy, obs, sim, pool_obs, transport, tr_obs,
                 data, result, reflex, run, wc, wc_obs,
                 norm, norm_obs>>

SweepReport ==
    /\ tool # None
    /\ tool.bin = "sweep" /\ tool.pc = "sweep"
    /\ tool.i > Len(PoolSizes)
    /\ tool' = SweepReportOp(tool)
    /\ UNCHANGED <<now, n_adv, policy, obs, sim, pool_obs, transport, tr_obs,
                 data, result, reflex, run, wc, wc_obs,
                 norm, norm_obs>>

InspectMain ==
    /\ tool # None
    /\ tool.bin = "inspect" /\ tool.pc = "main"
    /\ tool' = InspectMainOp(tool)
    /\ UNCHANGED <<now, n_adv, policy, obs, sim, pool_obs, transport, tr_obs,
                 data, result, reflex, run, wc, wc_obs,
                 norm, norm_obs>>

ReflexMain ==
    /\ tool # None
    /\ tool.bin = "reflex" /\ tool.pc = "main"
    /\ tool' = ReflexMainOp(tool)
    /\ UNCHANGED <<now, n_adv, policy, obs, sim, pool_obs, transport, tr_obs,
                 data, result, reflex, run, wc, wc_obs,
                 norm, norm_obs>>

NextTools ==
    \/ SweepMain
    \/ SweepRun
    \/ SweepReport
    \/ InspectMain
    \/ ReflexMain

SpecTools == InitTools /\ [][NextTools]_vars

\* The smallest of the p95 values of a table, as a set of candidates.
MinimalRows(table) ==
    {k \in 1..Len(table) :
        \A j \in 1..Len(table) : ~FLt(table[j].p95, table[k].p95)}

\* C25: sweep runs the simulation once for each N of 1, 2, 4, 8, 16, 32, 64,
\* in this order, and reports a best N whose p95 is minimal among the seven
\* runs, the smallest such N on ties; so p95(best N) <= p95(N = 1).
C25_SweepReportsMinimalP95 ==
    (tool # None /\ tool.bin = "sweep") =>
        /\ Len(tool.table) <= Len(PoolSizes)
        /\ \A k \in 1..Len(tool.table) : tool.table[k].n = PoolSizes[k]
        /\ tool.report # None =>
               LET best == Unwrap(tool.report)
                   rows == MinimalRows(tool.table)
               IN  /\ Len(tool.table) = Len(PoolSizes)
                   /\ \E k \in rows :
                          /\ tool.table[k].n = best.best_n
                          /\ tool.table[k].p95 = best.best_p95
                          /\ \A j \in rows : k <= j
                   /\ FLe(best.best_p95, tool.table[1].p95)

\* sweep reported N = 2 after the p95 values 900, 400, 400, 900, 400, 900,
\* 900: the minimum was measured three times.
C25_Witness ==
    /\ tool # None
    /\ tool.report = Some([best_n |-> 2, best_p95 |-> Num(800)])
    /\ [k \in 1..7 |-> tool.table[k].p95] =
           <<Num(1800), Num(800), Num(800), Num(1800), Num(800), Num(1800),
             Num(1800)>>

\* The command line or the files of the process are in error: an argument is
\* missing or does not parse, a file is missing, or its content does not
\* decode.
InputError(t) ==
    IF t.bin = "sweep"
    THEN \/ Len(t.args) < 4
         \/ ~ParsesF64(t.args[2]) \/ ~ParsesU64(t.args[3]) \/ ~ParsesU64(t.args[4])
    ELSE IF t.bin = "inspect"
    THEN \/ Len(t.args) < 2
         \/ t.reflex_file = None
         \/ FromBytes(Unwrap(t.reflex_file)).tag # "Ok"
    ELSE \/ t.normalizer_file \in {None, Some("{}")}
         \/ t.reflex_file = None
         \/ FromBytes(Unwrap(t.reflex_file)).tag # "Ok"

\* C26: a binary ends with exit status 0 on success and with exit status 1
\* on an argument error or an I/O or load error.
C26_ExitStatus ==
    (tool # None /\ tool.pc = "exited") =>
        tool.exit_code = (IF InputError(tool) THEN 1 ELSE 0)

\* inspect and sweep ended with status 1 on a command line that is too
\* short, and sweep ended with status 0 after its seven runs.
C26_Witness ==
    /\ tool # None
    /\ tool.pc = "exited"
    /\ \/ tool.bin = "inspect" /\ tool.args = <<"inspect">> /\ tool.exit_code = 1
       \/ tool.bin = "sweep" /\ Len(tool.table) = 7 /\ tool.exit_code = 0

\* The number of events of a history that are not older than one second at
\* time t.
EventsWithinSecond(times, t) ==
    Cardinality({k \in 1..Len(times) : times[k] >= t - OneSecondUs})

\* C27: the arrival_rate and the completion_rate of the telemetry composed
\* at a tick of the worker-pool simulator are the numbers of enqueue and of
\* completion events within the second before the tick; an older event is
\* not counted.
C27_RatesCountLastSecond ==
    [][(sim # None /\ pool_obs'.n_ticks # pool_obs.n_ticks) =>
         LET telem == Unwrap(pool_obs'.telem)
         IN  /\ telem.arrival_rate = EventsWithinSecond(pool_obs'.enqueued, now)
             /\ telem.completion_rate =
                    EventsWithinSecond(pool_obs'.completed, now)]_vars

\* A second tick, less than a second after the first, counted two arrivals
\* and two completions, all of them of the last second.
C27_Witness ==
    /\ sim # None
    /\ pool_obs.n_ticks = 2
    /\ now < OneSecondUs
    /\ Unwrap(pool_obs.telem).arrival_rate = 2
    /\ Unwrap(pool_obs.telem).completion_rate = 2
    /\ Len(pool_obs.enqueued) = 2
    /\ Len(pool_obs.completed) = 2

\* The larger and the smaller of two numbers.
Larger(a, b) == IF a >= b THEN a ELSE b

Smaller(a, b) == IF a <= b THEN a ELSE b

\* C28: after the resize of a worker-pool tick the pool size is
\* max(n_workers, busy), for the decision n_workers of the tick and the busy
\* workers at the resize: a target above the current size is reached exactly,
\* by new idle workers; for a target below it, min(current - target, idle)
\* idle workers are removed; the size does not end the tick below the target.
C28_ResizeReachesMax ==
    [][(sim # None /\ pool_obs'.n_ticks # pool_obs.n_ticks) =>
         LET target  == Unwrap(pool_obs'.decision).n_workers
             before  == AssignLoop(CompleteLoop(sim, 1, now), 1, now).workers
             current == Len(before)
             busy    == BusyWorkers(before)
             idle    == current - busy
             after   == sim'.workers
         IN  /\ Len(after) = Larger(target, busy)
             /\ Len(after) >= target
             /\ BusyWorkers(after) = busy
             /\ target > current =>
                    /\ Len(after) = target
                    /\ SubSeq(after, 1, current) = before
                    /\ \A k \in (current + 1)..target : WorkerIsIdle(after[k])
             /\ target < current =>
                    Len(after) = current - Smaller(current - target, idle)]_vars

\* A tick that asked for one worker of a pool of eight, two of them busy,
\* left the two busy workers: six idle workers were removed, not seven.
C28_Witness ==
    /\ sim # None
    /\ pool_obs.n_ticks = 1
    /\ Unwrap(pool_obs.decision).n_workers = 1
    /\ Unwrap(pool_obs.telem).idle_worker_count = 6
    /\ Len(sim.workers) = 2
    /\ BusyWorkers(sim.workers) = 2

\* The workers of ws that hold a task, in list order.
BusyInOrder(ws) ==
    LET Busy(w) == ~WorkerIsIdle(w) IN SelectSeq(ws, Busy)

\* The workers after an assignment step at time t that finds the workers ws
\* and the queue q: the r-th idle worker of the list holds the r-th task of
\* the queue, started at t and to finish work_us later.
AssignedInOrder(ws, q, t) ==
    [i \in 1..Len(ws) |->
        LET r == Cardinality({j \in 1..i : WorkerIsIdle(ws[j])})
        IN  IF WorkerIsIdle(ws[i]) /\ r <= Len(q)
            THEN [ws[i] EXCEPT
                     !.current_task = Some([q[r] EXCEPT !.start_time = Some(t)]),
                     !.task_finish_time = Some(t + q[r].work_us)]
            ELSE ws[i]]

\* C29: the worker-pool simulator starts tasks in FIFO order. In a tick the
\* idle workers, in list order, take the tasks at the front of the queue, with
\* start_time = now and finish_time = now + work_us; every task that was
\* started was enqueued before every task still in the queue; and no worker
\* is idle at the end of the assignment step while the queue is non-empty.
C29_FifoAssignment ==
    [][(sim # None /\ pool_obs'.n_ticks # pool_obs.n_ticks) =>
         LET pre   == CompleteLoop(sim, 1, now)
             idle  == Cardinality({j \in 1..Len(pre.workers) :
                                      WorkerIsIdle(pre.workers[j])})
             taken == Smaller(idle, Len(pre.queue))
             telem == Unwrap(pool_obs'.telem)
         IN  /\ sim'.queue = SubSeq(pre.queue, taken + 1, Len(pre.queue))
             /\ BusyInOrder(sim'.workers) =
                    BusyInOrder(AssignedInOrder(pre.workers, pre.queue, now))
             /\ \A i \in 1..Len(sim'.workers) :
                    ~WorkerIsIdle(sim'.workers[i]) =>
                        LET task == Unwrap(sim'.workers[i].current_task)
                        IN  /\ task.start_time # None
                            /\ sim'.workers[i].task_finish_time =
                                   Some(Unwrap(task.start_time) + task.work_us)
                            /\ \A k \in 1..Len(sim'.queue) :
                                   /\ task.id < sim'.queue[k].id
                                   /\ task.arrival_time <= sim'.queue[k].arrival_time
             /\ \A k \in 1..Len(sim'.queue) :
                    sim'.queue[k].id = sim'.next_task_id - Len(sim'.queue) + k - 1
             /\ telem.runq_len > 0 => telem.idle_worker_count = 0]_vars

\* A pool of one worker had two tasks waiting at a tick: the worker holds
\* the first and the second is still in the queue.
C29_Witness ==
    /\ sim # None
    /\ pool_obs.n_ticks = 1
    /\ Len(sim.workers) = 1
    /\ ~WorkerIsIdle(sim.workers[1])
    /\ Unwrap(sim.workers[1].current_task).id = 0
    /\ Unwrap(sim.workers[1].current_task).start_time = Some(now)
    /\ Len(sim.queue) = 1
    /\ Unwrap(pool_obs.telem).runq_len = 1

\* ----------------------- both simulators under every policy of the model

InitSimulators == InitPool \/ InitTransport

\* The steps are those of NextBaseline: enqueue, tick and clock of whichever
\* simulator the run has.
SpecSimulators == InitSimulators /\ [][NextBaseline]_vars

\* The metric after a step, for the metric and the decision before it and
\* the decision after it: one more when the step is a tick whose decision
\* differs from that of the tick before, the same otherwise.
CountsChange(before, after, ticked, last, decision) ==
    after = before + (IF ticked /\ last # None /\ decision # last THEN 1 ELSE 0)

\* C30: in both simulators decision_changes grows by exactly one at each tick
\* whose decision differs in any field from that of the tick before and is
\* unchanged at every other tick; the first tick never increments it, so
\* after k ticks it is at most k - 1.
C30_DecisionChangesCount ==
    [][/\ sim # None =>
            /\ CountsChange(sim.metrics.decision_changes,
                            sim'.metrics.decision_changes,
                            pool_obs'.n_ticks # pool_obs.n_ticks,
                            pool_obs.decision, pool_obs'.decision)
            /\ pool_obs'.n_ticks <= 1 => sim'.metrics.decision_changes = 0
            /\ pool_obs'.n_ticks >= 1 =>
                   sim'.metrics.decision_changes <= pool_obs'.n_ticks - 1
       /\ transport # None =>
            /\ CountsChange(transport.metrics.decision_changes,
                            transport'.metrics.decision_changes,
                            tr_obs'.n_ticks # tr_obs.n_ticks,
                            tr_obs.decision, tr_obs'.decision)
            /\ tr_obs'.n_ticks <= 1 => transport'.metrics.decision_changes = 0
            /\ tr_obs'.n_ticks >= 1 =>
                   transport'.metrics.decision_changes <= tr_obs'.n_ticks - 1]_vars

\* The second tick of a transport run decided differently from the first and
\* the metric is 1.
C30_Witness ==
    /\ transport # None
    /\ tr_obs.n_ticks = 2
    /\ transport.metrics.decision_changes = 1
    /\ Unwrap(tr_obs.decision).threshold = 3

\* ------------------------------------------------- the transport runners
\* main of sim's baseline.rs and reflex.rs from "Run simulation" on: the loop
\* enqueues a packet and ticks, or sleeps and ticks, until the thirty seconds
\* of the run are over; then comes one more tick ("Final flush") and the
\* metrics are printed. The run's duration is far longer than the clock of
\* the model reaches, so the loop may end after any of its ticks.

\* The driver at the head of its loop.
RunnerStart == [pc |-> "loop", total |-> None]

InitRunner ==
    /\ now = 0
    /\ n_adv = 0
    /\ policy \in TrPolicies
    /\ obs = ObsInit
    /\ sim = None
    /\ pool_obs = None
    /\ transport = FakeTransportNew(0)
    /\ tr_obs = TrObsInit
    /\ data = None
    /\ result = None
    /\ reflex = None
    /\ run = None
    /\ wc = None
    /\ wc_obs = None
    /\ norm = None
    /\ norm_obs = None
    /\ tool = RunnerStart

\* transport.enqueue(size); the tick of the same turn follows.
RunnerEnqueue ==
    /\ tool.pc = "loop"
    /\ transport.next_packet_id < MaxPackets
    /\ \E b \in SizeSet : transport' = TrEnqueueOp(transport, b, now)
    /\ tr_obs' = [tr_obs EXCEPT !.n_enqueued = @ + 1]
    /\ tool' = [tool EXCEPT !.pc = "tick"]
    /\ UNCHANGED <<now, n_adv, policy, obs, sim, pool_obs, data, result,
                 reflex, run, wc, wc_obs,
                 norm, norm_obs>>

\* transport.tick() in the loop, after an enqueue or after a sleep.
RunnerTick ==
    /\ tool.pc \in {"loop", "tick"}
    /\ tr_obs.n_ticks < TrTicks
    /\ \E r \in Decide(policy, now, TrSimSamples, {}) :
          /\ policy' = r.policy
          /\ transport' = TransportTick(transport, now, r.decision)
          /\ tr_obs' = [n_ticks |-> tr_obs.n_ticks + 1,
                        decision |-> Some(r.decision),
                        telem |-> Some(TrCollectTelemetry(transport, now)),
                        queue_len |-> Len(transport.queue),
                        n_enqueued |-> tr_obs.n_enqueued]
    /\ tool' = [tool EXCEPT !.pc = "loop"]
    /\ UNCHANGED <<now, n_adv, obs, sim, pool_obs, data, result,
                 reflex, run, wc, wc_obs,
                 norm, norm_obs>>

\* Time passes: thread::sleep, or the time the driver's own statements take.
RunnerClock ==
    /\ tool.pc # "done"
    /\ \E d \in TrDeltas : ClockAdvance(d, TrAdvances)
    /\ UNCHANGED <<policy, obs, sim, pool_obs, transport, tr_obs, data, result,
                 reflex, run, wc, wc_obs,
                 norm, norm_obs, tool>>

\* The loop has ended after a tick: "Final flush" transport.tick(), and
\* "Total packets: {}" prints metrics.latencies_us.len().
RunnerFinish ==
    /\ tool.pc = "loop"
    /\ tr_obs.n_ticks >= 1
    /\ \E r \in Decide(policy, now, TrSimSamples, {}) :
          /\ policy' = r.policy
          /\ transport' = TransportTick(transport, now, r.decision)
          /\ tr_obs' = [n_ticks |-> tr_obs.n_ticks + 1,
                        decision |-> Some(r.decision),
                        telem |-> Some(TrCollectTelemetry(transport, now)),
                        queue_len |-> Len(transport.queue),
                        n_enqueued |-> tr_obs.n_enqueued]
          /\ tool' = [pc |-> "done",
                      total |-> Some(Len(transport'.metrics.latencies_us))]
    /\ UNCHANGED <<now, n_adv, obs, sim, pool_obs, data, result,
                 reflex, run, wc, wc_obs,
                 norm, norm_obs>>

NextRunner ==
    \/ RunnerEnqueue
    \/ RunnerTick
    \/ RunnerClock
    \/ RunnerFinish

SpecRunner == InitRunner /\ [][NextRunner]_vars

\* C31: a transport runner ends with a final flush: after the last tick,
\* which comes before the metrics are printed, the queue is empty, and the
\* total packet count printed is the number of packets enqueued in the run.
C31_FinalFlushEmptiesQueue ==
    tool.pc = "done" =>
        /\ transport.queue = <<>>
        /\ Unwrap(tool.total) = tr_obs.n_enqueued

\* A baseline run that enqueued two packets and whose last tick came when
\* the older one was due: that tick emptied the queue and the total printed
\* is 2.
C31_Witness ==
    /\ tool.pc = "done"
    /\ policy.kind = "baseline"
    /\ transport.next_packet_id = 2
    /\ tr_obs.queue_len = 2
    /\ transport.queue = <<>>
    /\ tool.total = Some(2)

\* The length a buffer of at least 29 bytes declares: the header, the three
\* payload sizes of the header, and the checksum.
DeclaredLen(bytes) ==
    HeaderSize + U32FromLe(SubSeq(bytes, 18, 21))
        + U32FromLe(SubSeq(bytes, 22, 25))
        + U32FromLe(SubSeq(bytes, 26, 29)) + ChecksumSize

\* C32: decode accepts a buffer only if its length is exactly
\* 29 + M + B + D + 4 for the payload sizes M, B, D of its header, so that
\* the checksum verified is the four bytes at offset 29 + M + B + D over the
\* bytes before them; a buffer with extra bytes between the metadata payload
\* and the checksum is rejected.
C32_AcceptsExactLengthOnly ==
    (result # None /\ Unwrap(result).tag = "Ok") =>
        /\ Len(data.bytes) = DeclaredLen(data.bytes)
        /\ CrcValid(data.bytes)

\* A buffer with one extra byte in front of its checksum, the checksum not
\* written anew, was refused.
C32_Witness ==
    /\ result # None
    /\ Unwrap(result).tag = "Err"
    /\ data.n_edits = 1
    /\ Len(data.bytes) > HeaderSize
    /\ Len(data.bytes) = DeclaredLen(data.bytes) + 1
    /\ SubSeq(data.bytes, 1, 29) = SubSeq(ToBytes(TestReflex), 1, 29)

\* The ids of the tasks waiting in the queue, and of those held by workers.
QueuedIds(s) == {s.queue[k].id : k \in 1..Len(s.queue)}

HeldIds(s) == {task.id : task \in HeldTasks(s.workers)}

\* C33: tasks are conserved in the worker-pool simulator: every task ever
\* enqueued is waiting in the queue, or held by exactly one worker, or
\* completed with one task time recorded, so queue length + busy workers +
\* recorded task times is the number of enqueue calls; assignment,
\* completion and resize neither lose nor duplicate a task.
C33_TasksConserved ==
    sim # None =>
        /\ Len(sim.queue) + BusyWorkers(sim.workers)
               + Len(sim.metrics.task_times_us) = Len(pool_obs.enqueued)
        /\ Cardinality(QueuedIds(sim)) = Len(sim.queue)
        /\ Cardinality(HeldIds(sim)) = BusyWorkers(sim.workers)
        /\ QueuedIds(sim) \cap HeldIds(sim) = {}
        /\ QueuedIds(sim) \cup HeldIds(sim) \subseteq 0..(Len(pool_obs.enqueued) - 1)
        /\ Len(sim.metrics.task_times_us) = Len(pool_obs.completed)

\* Of two tasks enqueued in a pool that was shrunk from eight workers, one
\* is completed and the other is held by a worker.
C33_Witness ==
    /\ sim # None
    /\ Len(pool_obs.enqueued) = 2
    /\ Len(sim.workers) < RunnerWorkers
    /\ Len(sim.workers) > 1
    /\ Len(sim.metrics.task_times_us) = 1
    /\ BusyWorkers(sim.workers) = 1

\* C34: packets are conserved in the transport simulator: the ids are 0, 1,
\* 2, ... in the order of the enqueue calls, without gap or repeat; the queue
\* holds its packets by increasing id and nondecreasing arrival time; and
\* queue length + recorded latencies is the number of enqueue calls, the
\* latency of each packet being recorded once.
C34_PacketsConserved ==
    transport # None =>
        /\ transport.next_packet_id = tr_obs.n_enqueued
        /\ Len(transport.queue) + Len(transport.metrics.latencies_us)
               = tr_obs.n_enqueued
        /\ \A k \in 1..Len(transport.queue) :
               transport.queue[k].id
                   = tr_obs.n_enqueued - Len(transport.queue) + k - 1
        /\ \A j \in 1..Len(transport.queue), k \in 1..Len(transport.queue) :
               j < k =>
                   /\ transport.queue[j].id < transport.queue[k].id
                   /\ transport.queue[j].arrival_time
                          <= transport.queue[k].arrival_time

\* Of three packets enqueued, two have been flushed and the third, which
\* arrived later, is waiting with id 2.
C34_Witness ==
    /\ transport # None
    /\ tr_obs.n_enqueued = 3
    /\ Len(transport.metrics.latencies_us) = 2
    /\ Len(transport.queue) = 1
    /\ transport.queue[1].id = 2
    /\ transport.queue[1].arrival_time > 0

\* The workers of ws whose task is due at time t, in list order.
DueInOrder(ws, t) ==
    LET Due(w) == /\ ~WorkerIsIdle(w)
                  /\ Unwrap(Unwrap(w.current_task).start_time)
                         + Unwrap(w.current_task).work_us <= t
    IN  SelectSeq(ws, Due)

\* C35: a task is completed only at a tick at or after its start_time +
\* work_us and later than the tick that assigned it: completions are checked
\* before assignments, so a task does not complete in the tick that starts
\* it, even when work_us is 0; every recorded task time, now - arrival_time,
\* is at least the work_us of its task.
C35_CompletesWhenDue ==
    [][(sim # None /\ pool_obs'.n_ticks # pool_obs.n_ticks) =>
         LET due == DueInOrder(sim.workers, now)
         IN  /\ sim'.metrics.task_times_us =
                    sim.metrics.task_times_us \o
                        [k \in 1..Len(due) |->
                            now - Unwrap(due[k].current_task).arrival_time]
             /\ \A k \in 1..Len(due) :
                    now - Unwrap(due[k].current_task).arrival_time
                        >= Unwrap(due[k].current_task).work_us
             /\ QueuedIds(sim) \subseteq QueuedIds(sim') \cup HeldIds(sim')
             /\ \A task \in HeldTasks(sim'.workers) :
                    task.id \in QueuedIds(sim) =>
                        task.start_time = Some(now)]_vars

\* A task of no work was assigned at the first tick and is completed, with
\* task time 0, by a second tick at the same clock reading.
C35_Witness ==
    /\ sim # None
    /\ pool_obs.n_ticks = 2
    /\ now = 0
    /\ Len(pool_obs.enqueued) = 1
    /\ sim.metrics.task_times_us = <<0>>

\* ------------------------------- a longer run of the worker-pool simulator
\* One pool under a policy of the caller's own, ticked often enough for a
\* completion to grow older than the second the count windows keep.

LongTicks == 3

\* At most this many tasks are enqueued in the longer run.
LongTasks == 1

InitLongPool ==
    /\ InitPool
    /\ policy = ExternalPolicy("compute")

\* The driver calls sim.enqueue(work_us).
LongEnqueue ==
    /\ sim.next_task_id < LongTasks
    /\ \E w \in WorkSet : sim' = SimEnqueue(sim, w, now)
    /\ pool_obs' = [pool_obs EXCEPT !.enqueued = Append(@, now)]
    /\ UNCHANGED <<now, n_adv, policy, obs, transport, tr_obs, data, result,
                 reflex, run, wc, wc_obs,
                 norm, norm_obs, tool>>

LongTick == TickWith(PoolExternals, LongTicks)

NextLongPool ==
    \/ LongEnqueue
    \/ LongTick
    \/ PoolClock

SpecLongPool == InitLongPool /\ [][NextLongPool]_vars

\* C36: the task-time window of the worker-pool simulator, from which the
\* p50 and p95 features are taken, is never evicted: no step removes an entry
\* from it, and in every state it holds the task times of the metrics' full
\* list, in the same order.
C36_TaskTimeWindowKeepsAll ==
    [][sim # None =>
         /\ sim'.task_times_window = sim'.metrics.task_times_us
         /\ Len(sim'.task_times_window) >= Len(sim.task_times_window)
         /\ SubSeq(sim'.task_times_window, 1, Len(sim.task_times_window))
                = sim.task_times_window]_vars

\* A tick more than a second after a completion has emptied the completion
\* window; the task time of that completion is still in the task-time
\* window.
C36_Witness ==
    /\ sim # None
    /\ Len(pool_obs.completed) = 1
    /\ sim.completion_count_window = <<>>
    /\ Len(sim.task_times_window) = 1
    /\ sim.task_times_window = sim.metrics.task_times_us

\* ------------------------- the transport reflex runner's policy, end to end

\* Reflexes the runner is given: two outputs over the policy's features. The
\* batch threshold is 2 when the first feature (the queue depth) is at most
\* 0.5, or at most 0.0 for the second reflex, and 8 above it; the maximum
\* delay is 50 us.
DepthTrees(split_at) ==
    <<<<Split(0, split_at, 1, 2), Leaf(Num(4)), Leaf(Num(16))>>,
      <<Leaf(Num(100))>>>>

FreshReflexes ==
    {ReflexOf(DepthTrees(at), PairBounds, NormFeatures, 2) : at \in {Num(0), Num(1)}}

\* Telemetry::to_features: the leading features of the vector, the queue
\* depth first.
TrToFeatures(telem) ==
    SubSeq(<<Num(2 * telem.queue_depth), telem.enqueue_rate, telem.dequeue_rate>>,
           1, NormFeatures)

\* The number of nodes of the trees: a descent that ends takes no more turns
\* than that.
RECURSIVE NodeCount(_)
NodeCount(trees) ==
    IF trees = <<>> THEN 0 ELSE Len(Head(trees)) + NodeCount(Tail(trees))

\* The loop of infer over the trees, eval_tree turn by turn.
RECURSIVE InferTurns(_, _, _)
InferTurns(r, trees, turns) ==
    IF r.status # "running" \/ r.tree > Len(trees) \/ turns = 0 THEN r
    ELSE InferTurns(EvalTreeTurn(r, trees), trees, turns - 1)

\* Reflex::infer as one call: the assert_eq on the sample's length, the
\* trees, the clamp. A call that does not return within the turns of a
\* descent that ends is reported as a panic.
ReflexInfer(r, features) ==
    IF Len(features) # r.header.feature_count
    THEN Panic("Feature count mismatch")
    ELSE LET end == InferTurns(Running(features, 1, 0, <<>>), r.trees,
                               NodeCount(r.trees))
         IN  IF end.status = "panicked" THEN Panic(end.msg)
             ELSE IF end.tree <= Len(r.trees) THEN Panic("no return")
             ELSE ClampLoop(end.outputs, r.bounds)

\* What the run has shown of the policy's normalizer: the last call, and
\* every feature vector handed to normalize so far.
FreshObsInit ==
    [op |-> "new", features |-> <<>>, ret |-> <<>>, inputs |-> {}]

\* sim/src/bin/reflex.rs: Reflex::from_bytes, Normalizer::new,
\* ReflexPolicy::load, FakeTransport::new.
InitFresh ==
    /\ now = 0
    /\ n_adv = 0
    /\ policy = ReflexPolicyLoad("transport")
    /\ obs = ObsInit
    /\ sim = None
    /\ pool_obs = None
    /\ transport = FakeTransportNew(0)
    /\ tr_obs = TrObsInit
    /\ data = None
    /\ result = None
    /\ reflex \in {Some(r) : r \in FreshReflexes}
    /\ run = None
    /\ wc = None
    /\ wc_obs = None
    /\ norm = NormalizerNew
    /\ norm_obs = FreshObsInit
    /\ tool = None

\* transport.tick() under the runner's policy: collect_telemetry, then
\* ReflexPolicy::decide (the hold, to_features, normalize, infer, the
\* decoding), then the rest of tick.
FreshTick ==
    /\ tr_obs.n_ticks < TrTicks
    /\ LET telem == TrCollectTelemetry(transport, now)
           features == TrToFeatures(telem)
           norm_features == NormalizerNormalize(norm, features)
           outputs == ReflexInfer(Unwrap(reflex), norm_features)
           held == HoldActive(policy, now)
       IN  /\ held \/ outputs.tag = "Ok"
           /\ LET r == ReflexDecide(policy, now, outputs.value)
              IN  /\ policy' = r.policy
                  /\ transport' = TransportTick(transport, now, r.decision)
                  /\ tr_obs' = [n_ticks |-> tr_obs.n_ticks + 1,
                                decision |-> Some(r.decision),
                                telem |-> Some(telem),
                                queue_len |-> Len(transport.queue),
                                n_enqueued |-> tr_obs.n_enqueued]
           /\ norm_obs' = IF held THEN norm_obs
                          ELSE [op |-> "normalize",
                                features |-> features,
                                ret |-> norm_features,
                                inputs |-> norm_obs.inputs \cup {features}]
    /\ UNCHANGED <<now, n_adv, obs, sim, pool_obs, data, result,
                 reflex, run, wc, wc_obs, norm, tool>>

NextFresh ==
    \/ TrEnqueue
    \/ FreshTick
    \/ TrClock

SpecFresh == InitFresh /\ [][NextFresh]_vars

\* C37: the policy of the transport reflex runner holds a normalizer that
\* was never observed, so every feature vector it normalizes comes out as
\* 0.5 in every feature; every tick of the run gets the same decision as the
\* tick before it, and decision_changes stays 0.
C37_FreshNormalizerFreezesDecision ==
    [][/\ norm_obs'.op = "normalize" => norm_obs'.ret = Filled(Num(1))
       /\ IsSome(tr_obs.decision) => tr_obs'.decision = tr_obs.decision
       /\ transport'.metrics.decision_changes = 0]_vars

\* Two ticks more than the hold time apart, the reflex evaluated at both, on
\* two different feature vectors (an empty queue, then one packet): the
\* normalized vector is all 0.5 and the decision did not change.
C37_Witness ==
    /\ tr_obs.n_ticks = 2
    /\ Cardinality(norm_obs.inputs) = 2
    /\ Unwrap(tr_obs.telem).queue_depth = 1
    /\ policy.last_decision_time = Some(now)
    /\ norm_obs.ret = Filled(Num(1))
    /\ transport.metrics.decision_changes = 0

\* ------------------------------- the worker pool ticked for ever (liveness)
\* A pool created with 0 or 1 workers under a policy that asks for at least
\* one worker at every tick. The driver enqueues up to LiveTasks tasks and
\* never stops ticking; the clock runs freely for LiveAdvances microseconds
\* and after that whenever a worker waits for its task's finish time.

LiveTasks == 2

LiveAdvances == 1

\* The policy changes its answer at most this many times in a run.
LiveChanges == 1

\* The decisions of a policy that always asks for at least one worker.
LiveExternals == {[n_workers |-> n] : n \in 1..MaxTarget}

\* Some worker holds a task whose finish time lies ahead.
WorkerWaits(s, t) ==
    \E i \in 1..Len(s.workers) :
        /\ IsSome(s.workers[i].task_finish_time)
        /\ t < Unwrap(s.workers[i].task_finish_time)

InitLivePool ==
    /\ now = 0
    /\ n_adv = 0
    /\ policy = ExternalPolicy("compute")
    /\ obs = ObsInit
    /\ \E n \in {0, 1} :
          /\ sim = ThreadPoolSimNew(n, 0)
          /\ tool = [initial_workers |-> n]
    /\ pool_obs = PoolObsInit
    /\ transport = None
    /\ tr_obs = None
    /\ data = None
    /\ result = None
    /\ reflex = None
    /\ run = None
    /\ wc = None
    /\ wc_obs = None
    /\ norm = None
    /\ norm_obs = None

\* sim.tick(), any number of times: the history counts the first MaxTicks
\* and leaves the telemetry out.
LiveTick ==
    /\ \E d \in LiveExternals :
          /\ \/ sim.metrics.decision_changes < LiveChanges
             \/ sim.last_decision = Some(d)
          /\ sim' = SimTick(sim, now, d)
          /\ pool_obs' = [n_ticks |-> IF pool_obs.n_ticks < MaxTicks
                                      THEN pool_obs.n_ticks + 1
                                      ELSE pool_obs.n_ticks,
                          telem |-> None,
                          decision |-> Some(d),
                          enqueued |-> pool_obs.enqueued,
                          completed |-> pool_obs.completed \o
                              [k \in 1..(Len(sim'.metrics.task_times_us)
                                         - Len(sim.metrics.task_times_us))
                                  |-> now]]
    /\ UNCHANGED <<now, n_adv, policy, obs, transport, tr_obs, data, result,
                 reflex, run, wc, wc_obs,
                 norm, norm_obs, tool>>

\* Instant::now() reads later.
LiveClock ==
    /\ n_adv < LiveAdvances \/ WorkerWaits(sim, now)
    /\ now' = now + 1
    /\ n_adv' = IF n_adv < LiveAdvances THEN n_adv + 1 ELSE n_adv
    /\ UNCHANGED <<policy, obs, sim, pool_obs, transport, tr_obs, data, result,
                 reflex, run, wc, wc_obs,
                 norm, norm_obs, tool>>

LiveTaskEnqueue ==
    /\ sim.next_task_id < LiveTasks
    /\ \E w \in WorkSet : sim' = SimEnqueue(sim, w, now)
    /\ pool_obs' = [pool_obs EXCEPT !.enqueued = Append(@, now)]
    /\ UNCHANGED <<now, n_adv, policy, obs, transport, tr_obs, data, result,
                 reflex, run, wc, wc_obs,
                 norm, norm_obs, tool>>

NextLivePool ==
    \/ LiveTaskEnqueue
    \/ LiveTick
    \/ LiveClock

\* The runners call tick in every turn of their loop, and the clock does not
\* stop.
SpecLivePool ==
    /\ InitLivePool
    /\ [][NextLivePool]_vars
    /\ WF_vars(LiveTick)
    /\ WF_vars(LiveClock)

\* C38: in the worker-pool simulator, under a policy that always asks for at
\* least one worker, with the clock running and tick called again and again,
\* every task in the queue is eventually on a worker, and every task enqueued
\* eventually leaves the queue and the workers with its task time recorded,
\* whatever the resizes and also from a pool created with no worker.
C38_EveryTaskCompletes ==
    \A id \in 0..(LiveTasks - 1) :
        /\ (id \in QueuedIds(sim)) ~> (id \in HeldIds(sim))
        /\ (id \in QueuedIds(sim) \cup HeldIds(sim))
               ~> /\ id \notin QueuedIds(sim) \cup HeldIds(sim)
                  /\ Len(sim.metrics.task_times_us) > 0
                  /\ Len(sim.metrics.task_times_us) = Len(pool_obs.completed)

\* A pool created with no worker has completed every task of the run, two
\* of them, after the policy changed its answer.
C38_Witness ==
    /\ sim # None
    /\ tool # None
    /\ tool.initial_workers = 0
    /\ sim.next_task_id = LiveTasks
    /\ Len(sim.metrics.task_times_us) = LiveTasks
    /\ sim.metrics.decision_changes = LiveChanges
    /\ sim.queue = <<>>
    /\ HeldIds(sim) = {}

\* ----------------------------- the transport ticked for ever (liveness)
\* A transport simulator under a policy written against the public trait,
\* which may answer any threshold and any max_delay_us at any tick. A
\* max_delay_us is a u32, so it has a largest value; in the model that is
\* LiveDelay. The driver enqueues up to LivePackets packets and never stops
\* ticking; the clock runs freely for LiveAdvances microseconds and after
\* that for as long as a packet younger than LiveDelay waits.

LivePackets == 2

LiveDelay == 3

\* The decisions of the policy: flush at 2 packets or at no length the
\* model reaches; flush at once or at the largest delay.
LiveDecisions ==
    {[threshold |-> th, max_delay_us |-> d] :
        th \in {2, U32Max}, d \in {0, LiveDelay}}

InitLiveTransport ==
    /\ now = 0
    /\ n_adv = 0
    /\ policy = ExternalPolicy("transport")
    /\ obs = ObsInit
    /\ sim = None
    /\ pool_obs = None
    /\ transport = FakeTransportNew(0)
    /\ tr_obs = TrObsInit
    /\ data = None
    /\ result = None
    /\ reflex = None
    /\ run = None
    /\ wc = None
    /\ wc_obs = None
    /\ norm = None
    /\ norm_obs = None
    /\ tool = [odd_tick |-> FALSE]

LivePacketEnqueue ==
    /\ transport.next_packet_id < LivePackets
    /\ \E b \in SizeSet : transport' = TrEnqueueOp(transport, b, now)
    /\ tr_obs' = [tr_obs EXCEPT !.n_enqueued = @ + 1]
    /\ UNCHANGED <<now, n_adv, policy, obs, sim, pool_obs, data, result,
                 reflex, run, wc, wc_obs,
                 norm, norm_obs, tool>>

\* transport.tick(), any number of times: the history counts the first
\* TrTicks, and whether the number of ticks so far is odd.
LiveTransportTick ==
    /\ \E d \in LiveDecisions :
          /\ \/ transport.metrics.decision_changes < LiveChanges
             \/ transport.last_decision = Some(d)
          /\ transport' = TransportTick(transport, now, d)
          /\ tr_obs' = [n_ticks |-> IF tr_obs.n_ticks < TrTicks
                                    THEN tr_obs.n_ticks + 1
                                    ELSE tr_obs.n_ticks,
                        decision |-> Some(d),
                        telem |-> Some(TrCollectTelemetry(transport, now)),
                        queue_len |-> Len(transport.queue),
                        n_enqueued |-> tr_obs.n_enqueued]
    /\ tool' = [odd_tick |-> ~tool.odd_tick]
    /\ UNCHANGED <<now, n_adv, policy, obs, sim, pool_obs, data, result,
                 reflex, run, wc, wc_obs,
                 norm, norm_obs>>

\* Instant::now() reads later.
LiveTransportClock ==
    /\ \/ n_adv < LiveAdvances
       \/ /\ transport.queue # <<>>
          /\ OldestPacketAgeUs(transport, now) < LiveDelay
    /\ now' = now + 1
    /\ n_adv' = IF n_adv < LiveAdvances THEN n_adv + 1 ELSE n_adv
    /\ UNCHANGED <<policy, obs, sim, pool_obs, transport, tr_obs, data, result,
                 reflex, run, wc, wc_obs,
                 norm, norm_obs, tool>>

NextLiveTransport ==
    \/ LivePacketEnqueue
    \/ LiveTransportTick
    \/ LiveTransportClock

\* The runners call tick in every turn of their loop, and the clock does not
\* stop.
SpecLiveTransport ==
    /\ InitLiveTransport
    /\ [][NextLiveTransport]_vars
    /\ WF_vars(LiveTransportTick)
    /\ WF_vars(LiveTransportClock)

\* The ids of the packets in the queue.
QueuedPacketIds(s) == {s.queue[k].id : k \in 1..Len(s.queue)}

\* C39: in the transport simulator, under any policy, with the clock running
\* and tick called again and again, every packet in the queue is eventually
\* flushed, its latency recorded; and a tick at which the oldest packet's age
\* is at least the max_delay_us of that tick's decision leaves the queue
\* empty.
C39_EveryPacketFlushed ==
    /\ \A id \in 0..(LivePackets - 1) :
           (id \in QueuedPacketIds(transport))
               ~> /\ id \notin QueuedPacketIds(transport)
                  /\ Len(transport.metrics.latencies_us) > id
    /\ [][tool'.odd_tick # tool.odd_tick =>
            (OldestPacketAgeUs(transport, now)
                 >= Unwrap(tr_obs'.decision).max_delay_us
             => transport'.queue = <<>>)]_vars

\* A packet was left in the queue by a tick of the policy's largest
\* threshold and delay, and a later tick under the same decision, when the
\* packet's age had reached the delay, flushed it.
C39_Witness ==
    /\ transport # None
    /\ tool # None
    /\ ~tool.odd_tick
    /\ tr_obs.n_ticks = 2
    /\ tr_obs.decision = Some([threshold |-> U32Max, max_delay_us |-> LiveDelay])
    /\ transport.metrics.decision_changes = 0
    /\ tr_obs.queue_len = 1
    /\ transport.queue = <<>>
    /\ transport.metrics.latencies_us = <<LiveDelay>>

====
